---- MODULE Spec2Model ----
(***************************************************************************)
(* The in-memory file system of fs.c (the third, complete version in       *)
(* src/unnamed/part_004, lines 737-1607) as a state machine.               *)
(*                                                                         *)
(* Memory is a pool of node slots 1..MaxNodes; an address calloc returns   *)
(* is a slot of the pool, so a freed slot can be handed out again.  A path *)
(* is a sequence of one-character strings.  Every operation of fs.h is an  *)
(* operator from a state record to a result record [s, ret, out, fault],   *)
(* and the actions apply these operators to the variables.                 *)
(***************************************************************************)
EXTENDS Integers, Sequences, FiniteSets, TLC

VARIABLES nodes, live, root, cwd, fd_table, now, pc, last

vars == <<nodes, live, root, cwd, fd_table, now, pc, last>>

(***************************************************************************)
(* Bounds of the model.  fs.h sets NAME_MAX 32, MAX_CHILDREN 64 and        *)
(* MAX_OPEN_FILES 32 and size_t is 64 bits wide; the model keeps the code  *)
(* and scales these four numbers down so that a full directory, a full     *)
(* descriptor table, a longest name and a wrapping size_t are reachable.   *)
(***************************************************************************)
MaxNodes == 4
NAME_MAX == 2
MAX_CHILDREN == 2
MAX_OPEN_FILES == 2
SIZE_BITS == 9
MaxClock == 1
MaxData == 3

(* Program constants. *)
N_DIR == 1
N_FILE == 2
ATTR_NONE == 0
ATTR_HIDDEN == 1
ATTR_READONLY == 2
ATTR_SYSTEM == 4
ATTR_ARCHIVE == 8
O_RDONLY == 1
O_WRONLY == 2
O_RDWR == 3
SEEK_SET == 0
SEEK_CUR == 1
SEEK_END == 2
INIT_CAP == 64
PATH_BUF == 1024
PATH_SEGMENTS == 64
NULL == 0

NodeIds == 1..MaxNodes
SIZE_MOD == 2 ^ SIZE_BITS
SIZE_MAX == SIZE_MOD - 1
OFF_MAX == (2 ^ (SIZE_BITS - 1)) - 1
PTRDIFF_MAX == OFF_MAX

Dot == <<".">>
DotDot == <<".", ".">>
Garbage == <<"?">>

Min(S) == CHOOSE x \in S : \A y \in S : x <= y
Range(f) == {f[i] : i \in DOMAIN f}
Take(q, n) == IF Len(q) <= n THEN q ELSE SubSeq(q, 1, n)

(* Bitwise and of two small naturals (the C operator &). *)
RECURSIVE BitAnd(_, _)
BitAnd(a, b) ==
    IF a = 0 \/ b = 0 THEN 0
    ELSE (a % 2) * (b % 2) + 2 * BitAnd(a \div 2, b \div 2)

(***************************************************************************)
(* Memory.  A slot that was never allocated, or that nothing refers to any *)
(* more, holds BlankNode.  A call that dereferences a pointer to a freed   *)
(* node has undefined behaviour: it finds the bytes of the node where they *)
(* were ("stale"), or finds the first bytes of the chunk, which hold type  *)
(* and the start of name, overwritten by the allocator ("scribbled").  The *)
(* model follows such a call to the state it leaves and no further.        *)
(***************************************************************************)
BlankNode ==
    [type |-> 0, name |-> <<>>, parent |-> NULL,
     created |-> 0, modified |-> 0, accessed |-> 0, attributes |-> ATTR_NONE,
     children |-> <<>>, size |-> 0, cap |-> 0, data |-> <<>>]

FreeOutcomes == {"stale", "scribbled"}

AfterFree(rec, outcome) ==
    IF outcome = "stale" THEN rec
    ELSE [rec EXCEPT !.type = 0, !.name = Garbage]

(* The memory a call reads when it follows a dangling pointer. *)
ReadFreed(s, outcome) ==
    [s EXCEPT !.nodes = [n \in DOMAIN s.nodes |->
        IF n \in s.live THEN s.nodes[n] ELSE AfterFree(s.nodes[n], outcome)]]

St ==
    [nodes |-> nodes, live |-> live, root |-> root, cwd |-> cwd,
     fd_table |-> fd_table, now |-> now]

Res(s, ret) == [s |-> s, ret |-> ret, out |-> <<>>, fault |-> "none"]
Fault(s, f) == [s |-> s, ret |-> -1, out |-> <<>>, fault |-> f]

(* Every slot some pointer of the program still holds. *)
Refs(s) ==
    {s.cwd, s.root}
    \cup {s.fd_table[i].node : i \in DOMAIN s.fd_table}
    \cup {s.nodes[n].parent : n \in NodeIds}
    \cup UNION {Range(s.nodes[n].children) : n \in NodeIds}

(* Freed memory no pointer refers to cannot be observed: it is blanked. *)
Forget(s) ==
    [s EXCEPT !.nodes = [n \in NodeIds |->
        IF n \notin s.live /\ n \notin Refs(s) THEN BlankNode ELSE s.nodes[n]]]

FreeSlots(s) == NodeIds \ s.live

(* The addresses calloc may return: a freed slot something still points   *)
(* to (the address is reused under a dangling pointer), or a fresh one.   *)
AllocChoices(s) ==
    LET dangling == FreeSlots(s) \cap Refs(s)
        fresh == FreeSlots(s) \ Refs(s)
    IN  dangling \cup (IF fresh = {} THEN {} ELSE {Min(fresh)})

PickSlot(s, pref) ==
    IF pref \in FreeSlots(s) THEN pref ELSE Min(FreeSlots(s))

(* node_new: calloc, then type, parent, name and the three timestamps. *)
node_new(s, id, t, name, parent) ==
    [s EXCEPT
        !.live = @ \cup {id},
        !.nodes[id] = [BlankNode EXCEPT
            !.type = t, !.parent = parent, !.name = Take(name, NAME_MAX),
            !.created = s.now, !.modified = s.now, !.accessed = s.now]]

RECURSIVE node_free(_, _)
RECURSIVE free_children(_, _, _)

(* node_free: the children of a directory first, then the node itself.    *)
(* The slot leaves the live set; its bytes stay until ReadFreed or calloc. *)
node_free(s, n) ==
    IF n = NULL THEN s
    ELSE LET s1 == IF s.nodes[n].type = N_DIR
                   THEN free_children(s, n, 1) ELSE s
         IN  [s1 EXCEPT !.live = @ \ {n}]

free_children(s, n, i) ==
    IF i > Len(s.nodes[n].children) THEN s
    ELSE free_children(node_free(s, s.nodes[n].children[i]), n, i + 1)

(* Mutant: a directory is never found full. *)
dir_full_never(s, dir) == FALSE

(* dir->child_count >= MAX_CHILDREN *)
dir_full(s, dir) == Len(s.nodes[dir].children) >= MAX_CHILDREN

(* Mutant: the child is stored and its parent pointer is not set. *)
dir_add_no_parent(s, dir, child) ==
    IF dir = NULL \/ s.nodes[dir].type # N_DIR
       \/ Len(s.nodes[dir].children) >= MAX_CHILDREN THEN Res(s, NULL)
    ELSE IF child = NULL THEN Res(s, NULL)
    ELSE IF s.nodes[child].parent # NULL /\ s.nodes[child].parent # dir THEN Res(s, NULL)
    ELSE IF child \in Range(s.nodes[dir].children) THEN Res(s, child)
    ELSE Res([s EXCEPT
                !.nodes[dir].children = Append(@, child),
                !.nodes[dir].modified = s.now,
                !.nodes[dir].accessed = s.now], child)

(* dir_add: ret is the child, or NULL. *)
dir_add(s, dir, child) ==
    IF dir = NULL \/ s.nodes[dir].type # N_DIR
       \/ dir_full(s, dir) THEN Res(s, NULL)
    ELSE IF child = NULL THEN Res(s, NULL)
    ELSE IF s.nodes[child].parent # NULL /\ s.nodes[child].parent # dir THEN Res(s, NULL)
    ELSE IF child \in Range(s.nodes[dir].children) THEN Res(s, child)
    ELSE Res([s EXCEPT
                !.nodes[dir].children = Append(@, child),
                !.nodes[child].parent = dir,
                !.nodes[dir].modified = s.now,
                !.nodes[dir].accessed = s.now], child)

(* strncmp(a, b, NAME_MAX) == 0 *)
SameName(a, b) == Take(a, NAME_MAX) = Take(b, NAME_MAX)

(* Mutant: the scan finds nothing. *)
dir_find_blind(s, dir, name) == NULL

(* dir_find: the first child with that name, or NULL. *)
dir_find(s, dir, name) ==
    IF dir = NULL \/ s.nodes[dir].type # N_DIR THEN NULL
    ELSE LET ch == s.nodes[dir].children
             hits == {i \in 1..Len(ch) : SameName(s.nodes[ch[i]].name, name)}
         IN  IF hits = {} THEN NULL ELSE ch[Min(hits)]

(* strtok_r(tmp, "/") until it returns NULL: the non-empty runs between slashes. *)
RECURSIVE strtok_all(_, _, _)
strtok_all(path, i, tok) ==
    IF i > Len(path) THEN (IF tok = <<>> THEN <<>> ELSE <<tok>>)
    ELSE IF path[i] = "/"
         THEN (IF tok = <<>> THEN strtok_all(path, i + 1, <<>>)
               ELSE <<tok>> \o strtok_all(path, i + 1, <<>>))
         ELSE strtok_all(path, i + 1, Append(tok, path[i]))

Tokens(path) == strtok_all(path, 1, <<>>)

IsAbsolute(path) == Len(path) > 0 /\ path[1] = "/"

RECURSIVE walk_loop(_, _, _, _, _)
walk_loop(s, cur, toks, i, want_parent) ==
    IF i > Len(toks) THEN [node |-> cur, leaf |-> <<>>]
    ELSE LET tok == toks[i] IN
         IF Len(tok) = 0 \/ Len(tok) > NAME_MAX THEN [node |-> NULL, leaf |-> <<>>]
         ELSE IF tok = Dot THEN walk_loop(s, cur, toks, i + 1, want_parent)
         ELSE IF tok = DotDot
              THEN walk_loop(s, IF s.nodes[cur].parent # NULL
                                THEN s.nodes[cur].parent ELSE cur,
                             toks, i + 1, want_parent)
         ELSE IF i = Len(toks)
              THEN (IF want_parent THEN [node |-> cur, leaf |-> Take(tok, NAME_MAX)]
                    ELSE [node |-> dir_find(s, cur, tok), leaf |-> <<>>])
         ELSE LET d == dir_find(s, cur, tok) IN
              IF d = NULL \/ s.nodes[d].type # N_DIR
              THEN [node |-> NULL, leaf |-> <<>>]
              ELSE walk_loop(s, d, toks, i + 1, want_parent)

(* walk_from: node is the resolved node (or the parent), leaf what was     *)
(* copied to out_leaf (the caller's buffer starts empty).                  *)
walk_from(s, start, path, want_parent) ==
    LET cur == IF IsAbsolute(path) THEN s.root
               ELSE (IF start # NULL THEN start ELSE s.root)
    IN  walk_loop(s, cur, Tokens(Take(path, PATH_BUF - 1)), 1, want_parent)

walk(s, path, want_parent) == walk_from(s, s.cwd, path, want_parent)

(* node_get_path: the names from n up to root, at most PATH_SEGMENTS of    *)
(* them, nearest to root first.                                            *)
RECURSIVE segments(_, _, _)
segments(s, cur, count) ==
    IF cur = NULL \/ cur = s.root \/ count >= PATH_SEGMENTS THEN <<>>
    ELSE segments(s, s.nodes[cur].parent, count + 1) \o <<s.nodes[cur].name>>

RECURSIVE join(_, _)
join(segs, i) ==
    IF i > Len(segs) THEN <<>>
    ELSE segs[i] \o (IF i < Len(segs) THEN <<"/">> ELSE <<>>) \o join(segs, i + 1)

node_get_path(s, n, bufsize) ==
    IF n = NULL \/ bufsize = 0 THEN <<>>
    ELSE IF n = s.root THEN (IF bufsize > 1 THEN <<"/">> ELSE <<>>)
    ELSE Take(<<"/">> \o join(segments(s, n, 0), 1), bufsize - 1)

(* strstr(name, term) != NULL, for a term that is not empty. *)
Contains(name, term) ==
    \E i \in 1..(Len(name) - Len(term) + 1) : SubSeq(name, i, i + Len(term) - 1) = term

(* search_subtree: ret is the number of matches, out the lines printed.    *)
(* A descent deeper than there are nodes never ends: the recursion runs    *)
(* out of stack.                                                           *)
RECURSIVE search_subtree(_, _, _, _)
RECURSIVE search_children(_, _, _, _, _)
search_subtree(s, n, term, depth) ==
    IF n = NULL \/ term = <<>> THEN Res(s, 0)
    ELSE IF depth > MaxNodes THEN Fault(s, "crash")
    ELSE LET s1  == [s EXCEPT !.nodes[n].accessed = s.now]
             hit == n # s.root /\ Contains(s.nodes[n].name, term)
             line == IF hit
                     THEN << node_get_path(s1, n, PATH_BUF)
                             \o (IF s.nodes[n].type = N_DIR THEN <<"/">> ELSE <<>>) >>
                     ELSE <<>>
             k   == IF s.nodes[n].type = N_DIR
                    THEN search_children(s1, n, 1, term, depth)
                    ELSE Res(s1, 0)
         IN  IF k.fault # "none" THEN k
             ELSE [s |-> k.s, ret |-> (IF hit THEN 1 ELSE 0) + k.ret,
                   out |-> line \o k.out, fault |-> "none"]

search_children(s, d, i, term, depth) ==
    IF i > Len(s.nodes[d].children) THEN Res(s, 0)
    ELSE LET a == search_subtree(s, s.nodes[d].children[i], term, depth + 1) IN
         IF a.fault # "none" THEN a
         ELSE LET b == search_children(a.s, d, i + 1, term, depth) IN
              IF b.fault # "none" THEN b
              ELSE [s |-> b.s, ret |-> a.ret + b.ret,
                    out |-> a.out \o b.out, fault |-> "none"]

fs_search(s, term) ==
    IF term = <<>> THEN Res(s, -1)
    ELSE search_subtree(s, s.cwd, term, 1)

(* ls_dir: out is the children it prints, in order. *)
ls_target(s, path) ==
    IF path = <<>> \/ path = Dot THEN s.cwd
    ELSE IF path = <<"/">> THEN s.root
    ELSE walk(s, path, FALSE).node

ls_dir(s, path) ==
    LET d == ls_target(s, path)
    IN  IF d = NULL \/ s.nodes[d].type # N_DIR THEN Res(s, -1)
        ELSE [s |-> [s EXCEPT !.nodes[d].accessed = s.now],
              ret |-> 0, out |-> s.nodes[d].children, fault |-> "none"]

(* Mutant: no node counts as read-only. *)
IsReadOnly_never(s, n) == FALSE

IsReadOnly(s, n) == BitAnd(s.nodes[n].attributes, ATTR_READONLY) # 0

(* Mutant: the last entry is dropped, whichever entry was meant. *)
SwapRemove_last(ch, i) == SubSeq(ch, 1, Len(ch) - 1)

(* children[i] = children[child_count-1]; child_count-- *)
SwapRemove(ch, i) ==
    SubSeq([ch EXCEPT ![i] = ch[Len(ch)]], 1, Len(ch) - 1)

fs_cd(s, path) ==
    LET d == walk_from(s, s.cwd, path, FALSE).node IN
    IF d = NULL \/ s.nodes[d].type # N_DIR THEN Res(s, -1)
    ELSE Res([s EXCEPT !.cwd = d, !.nodes[d].accessed = s.now], 0)

(* Mutant: a file on the way is taken for a directory. *)
not_a_directory_never(s, n) == FALSE

(* else if (n->type != N_DIR) return -1; *)
not_a_directory(s, n) == s.nodes[n].type # N_DIR

RECURSIVE mkdir_loop(_, _, _, _, _)
mkdir_loop(s, cur, toks, i, pref) ==
    IF i > Len(toks) THEN Res(s, 0)
    ELSE LET tok == toks[i] IN
         IF Len(tok) = 0 \/ Len(tok) > NAME_MAX THEN Res(s, -1)
         ELSE IF tok = Dot THEN mkdir_loop(s, cur, toks, i + 1, pref)
         ELSE IF tok = DotDot
              THEN mkdir_loop(s, IF s.nodes[cur].parent # NULL
                                 THEN s.nodes[cur].parent ELSE cur,
                              toks, i + 1, pref)
         ELSE LET n == dir_find(s, cur, tok) IN
              IF n = NULL
              THEN IF FreeSlots(s) = {} THEN Fault(s, "nomem")
                   ELSE LET id == PickSlot(s, pref)
                            s1 == node_new(s, id, N_DIR, tok, cur)
                            a  == dir_add(s1, cur, id)
                        IN  IF a.ret = NULL THEN Res(s1, -1)
                            ELSE mkdir_loop(a.s, id, toks, i + 1, pref)
              ELSE IF not_a_directory(s, n) THEN Res(s, -1)
              ELSE mkdir_loop([s EXCEPT !.nodes[n].accessed = s.now],
                              n, toks, i + 1, pref)

mkdir_p(s, path, pref) ==
    IF path = <<"/">> \/ path = <<>> THEN Res(s, 0)
    ELSE mkdir_loop(s, IF IsAbsolute(path) THEN s.root ELSE s.cwd,
                    Tokens(path), 1, pref)

create_file(s, path, pref) ==
    LET w == walk(s, path, TRUE)
        parent == w.node
        leaf == w.leaf
    IN  IF parent = NULL \/ s.nodes[parent].type # N_DIR THEN Res(s, -1)
        ELSE IF leaf = <<>> THEN Res(s, -1)
        ELSE IF leaf = Dot \/ leaf = DotDot THEN Res(s, -1)
        ELSE IF Len(leaf) > NAME_MAX THEN Res(s, -1)
        ELSE IF dir_find(s, parent, leaf) # NULL THEN Res(s, -1)
        ELSE IF IsReadOnly(s, parent) THEN Res(s, -1)
        ELSE IF FreeSlots(s) = {} THEN Fault(s, "nomem")
        ELSE LET f  == PickSlot(s, pref)
                 s1 == node_new(s, f, N_FILE, leaf, parent)
                 a  == dir_add(s1, parent, f)
             IN  IF a.ret = NULL THEN Res(node_free(s1, f), -1)
                 ELSE Res([a.s EXCEPT !.nodes[parent].modified = s.now,
                                      !.nodes[parent].accessed = s.now], 0)

(* Mutant: no node is taken for the root. *)
is_root_never(s, n) == FALSE

(* d == root, n == root *)
is_root(s, n) == n = s.root

rm_file(s, path) ==
    LET w == walk(s, path, TRUE)
        parent == w.node
        leaf == w.leaf
    IN  IF parent = NULL THEN Res(s, -1)
        ELSE IF IsReadOnly(s, parent) THEN Res(s, -1)
        ELSE LET ch == s.nodes[parent].children
                 hits == {i \in 1..Len(ch) :
                            SameName(s.nodes[ch[i]].name, leaf)
                            /\ s.nodes[ch[i]].type = N_FILE}
             IN  IF hits = {} THEN Res(s, -1)
                 ELSE LET i == Min(hits)
                          c == ch[i]
                      IN  IF IsReadOnly(s, c) THEN Res(s, -1)
                          ELSE LET s1 == [s EXCEPT !.nodes[parent].children = SwapRemove(ch, i)]
                                   s2 == node_free(s1, c)
                               IN  Res([s2 EXCEPT !.nodes[parent].modified = s.now,
                                                  !.nodes[parent].accessed = s.now], 0)

rmdir_empty(s, path) ==
    LET d == walk(s, path, FALSE).node IN
    IF d = NULL \/ s.nodes[d].type # N_DIR \/ is_root(s, d) THEN Res(s, -1)
    ELSE IF Len(s.nodes[d].children) # 0 THEN Res(s, -1)
    ELSE LET p == s.nodes[d].parent IN
         IF p = NULL THEN Fault(s, "crash")
         ELSE IF IsReadOnly(s, p) THEN Res(s, -1)
         ELSE IF IsReadOnly(s, d) THEN Res(s, -1)
         ELSE LET ch == s.nodes[p].children
                  hits == {i \in 1..Len(ch) : ch[i] = d}
              IN  IF hits = {} THEN Res(s, -1)
                  ELSE LET s1 == [s EXCEPT !.nodes[p].children = SwapRemove(ch, Min(hits))]
                           s2 == node_free(s1, d)
                       IN  Res([s2 EXCEPT !.nodes[p].modified = s.now,
                                          !.nodes[p].accessed = s.now], 0)

(* Mutant: the destination name is never found taken. *)
name_taken_never(s, new_parent, new_name) == FALSE

(* if (dir_find(new_parent, new_name)) return -1; *)
name_taken(s, new_parent, new_name) == dir_find(s, new_parent, new_name) # NULL

(* The tail of rename_file: the new name and the timestamps. *)
rename_finish(s, n, new_name) ==
    LET s1 == [s EXCEPT !.nodes[n].name = Take(new_name, NAME_MAX),
                        !.nodes[n].modified = s.now]
        p  == s1.nodes[n].parent
    IN  Res(IF p # NULL THEN [s1 EXCEPT !.nodes[p].modified = s.now] ELSE s1, 0)

(* Mutant: the node is not put back. *)
reattach_skipped(s, dir, child) == s

(* if (!dir_add(old_parent, n)) return -1; return -1; *)
reattach(s, dir, child) == dir_add(s, dir, child).s

rename_file(s, old_path, new_path) ==
    LET n == walk(s, old_path, FALSE).node IN
    IF n = NULL THEN Res(s, -1)
    ELSE IF is_root(s, n) THEN Res(s, -1)
    ELSE IF IsReadOnly(s, n) THEN Res(s, -1)
    ELSE IF s.nodes[n].parent # NULL /\ IsReadOnly(s, s.nodes[n].parent) THEN Res(s, -1)
    ELSE LET w == walk(s, new_path, TRUE)
             new_parent == w.node
             new_name == w.leaf
         IN  IF new_parent = NULL \/ s.nodes[new_parent].type # N_DIR THEN Res(s, -1)
             ELSE IF IsReadOnly(s, new_parent) THEN Res(s, -1)
             ELSE IF name_taken(s, new_parent, new_name) THEN Res(s, -1)
             ELSE IF s.nodes[n].parent # new_parent
                  THEN LET old_parent == s.nodes[n].parent IN
                       IF old_parent = NULL THEN Fault(s, "crash")
                       ELSE LET ch == s.nodes[old_parent].children
                                hits == {i \in 1..Len(ch) : ch[i] = n}
                                s1 == IF hits = {} THEN s
                                      ELSE [s EXCEPT !.nodes[old_parent].children =
                                                        SwapRemove(ch, Min(hits))]
                                s2 == [s1 EXCEPT !.nodes[n].parent = NULL]
                                a  == dir_add(s2, new_parent, n)
                            IN  IF a.ret = NULL
                                THEN Res(reattach(s2, old_parent, n), -1)
                                ELSE rename_finish(
                                        [a.s EXCEPT !.nodes[old_parent].modified = s.now,
                                                    !.nodes[old_parent].accessed = s.now],
                                        n, new_name)
                  ELSE rename_finish(s, n, new_name)


(***************************************************************************)
(* File content.                                                           *)
(***************************************************************************)
(* Mutant: the new region is left as the allocator returned it. *)
Zeros_unset(n) == [i \in 1..n |-> 1]

Zeros(n) == [i \in 1..n |-> 0]

(* while (newcap < want) newcap *= 2, in size_t arithmetic; -1 when the    *)
(* product has wrapped to 0 and the loop can no longer end.                *)
(* Mutant: the buffer is grown to exactly the size asked for. *)
grow_cap_exact(newcap, want) == want

RECURSIVE grow_cap(_, _)
grow_cap(newcap, want) ==
    IF newcap >= want THEN newcap
    ELSE IF newcap = 0 THEN -1
    ELSE grow_cap((newcap * 2) % SIZE_MOD, want)

(* realloc returns NULL for a request above PTRDIFF_MAX. *)
realloc_fails(newcap) == newcap > PTRDIFF_MAX

ensure_cap(s, f, want) ==
    LET cap == s.nodes[f].cap IN
    IF cap >= want THEN Res(s, 0)
    ELSE LET newcap == grow_cap(IF cap # 0 THEN cap ELSE INIT_CAP, want) IN
         IF newcap = -1 THEN Fault(s, "hang")
         ELSE IF realloc_fails(newcap) THEN Res(s, -1)
         ELSE Res([s EXCEPT !.nodes[f].data = @ \o Zeros(newcap - cap),
                            !.nodes[f].cap = newcap], 0)

(* Mutant: the copy lands one byte late. *)
copy_in_shifted(data, off, buf) ==
    [i \in 1..Len(data) |->
        IF i > off + 1 /\ i <= off + 1 + Len(buf) THEN buf[i - off - 1] ELSE data[i]]

(* memcpy(f->data + off, buf, len) inside the buffer. *)
copy_in(data, off, buf) ==
    [i \in 1..Len(data) |->
        IF i > off /\ i <= off + Len(buf) THEN buf[i - off] ELSE data[i]]

(* The bytes a write stores and the size it leaves, once ensure_cap has    *)
(* succeeded.  A copy that ends beyond the buffer (need has wrapped) is a  *)
(* write outside the allocation: the process dies, or the bytes land       *)
(* outside the file and the call goes on.                                  *)
store(s, n, off, buf, need, ub) ==
    IF off + Len(buf) > s.nodes[n].cap /\ ub = "trap" THEN Fault(s, "crash")
    ELSE Res([s EXCEPT
                !.nodes[n].data = copy_in(@, off, buf),
                !.nodes[n].size = IF need > @ THEN need ELSE @,
                !.nodes[n].modified = s.now,
                !.nodes[n].accessed = s.now], Len(buf))

UbOutcomes == {"trap", "silent"}

write_file(s, path, off, buf, ub) ==
    LET f == walk(s, path, FALSE).node IN
    IF f = NULL \/ s.nodes[f].type # N_FILE THEN Res(s, -1)
    ELSE IF IsReadOnly(s, f) THEN Res(s, -1)
    ELSE LET need == (off + Len(buf)) % SIZE_MOD
             e == ensure_cap(s, f, need)
         IN  IF e.fault # "none" THEN e
             ELSE IF e.ret < 0 THEN Res(s, -1)
             ELSE store(e.s, f, off, buf, need, ub)

(* Mutant: a read stamps the modification time as well. *)
read_stamp_both(m, t) == [m EXCEPT !.accessed = t, !.modified = t]

(* f->accessed = time(NULL) *)
read_stamp(m, t) == [m EXCEPT !.accessed = t]

read_file(s, path, off, len) ==
    LET f == walk(s, path, FALSE).node IN
    IF f = NULL \/ s.nodes[f].type # N_FILE THEN Res(s, -1)
    ELSE IF off >= s.nodes[f].size THEN Res(s, 0)
    ELSE LET avail == s.nodes[f].size - off
             n == IF avail > len THEN len ELSE avail
         IN  [s |-> [s EXCEPT !.nodes[f] = read_stamp(@, s.now)],
              ret |-> n,
              out |-> SubSeq(s.nodes[f].data, off + 1, off + n),
              fault |-> "none"]

(* Mutant: the new flags are added to the ones already set. *)
new_attributes_added(old, bits) == old + bits - BitAnd(old, bits)

(* n->attributes = attributes *)
new_attributes(old, bits) == bits

set_file_attributes(s, path, attributes) ==
    LET n == walk(s, path, FALSE).node IN
    IF n = NULL THEN Res(s, -1)
    ELSE Res([s EXCEPT !.nodes[n].attributes = new_attributes(@, attributes),
                       !.nodes[n].modified = s.now], 0)

(* get_file_info: out is the file_info_t it fills. *)
get_file_info(s, path, has_info) ==
    IF ~has_info THEN Res(s, -1)
    ELSE LET n == walk(s, path, FALSE).node IN
         IF n = NULL THEN Res(s, -1)
         ELSE LET m == s.nodes[n]
                  info == [type |-> m.type, name |-> Take(m.name, NAME_MAX),
                           created |-> m.created, modified |-> m.modified,
                           accessed |-> m.accessed, attributes |-> m.attributes,
                           size |-> IF m.type = N_FILE THEN m.size ELSE 0,
                           child_count |-> IF m.type = N_FILE THEN 0 ELSE Len(m.children)]
              IN  [s |-> [s EXCEPT !.nodes[n].accessed = s.now],
                   ret |-> 0, out |-> <<info>>, fault |-> "none"]

(* Mutant: a missing node is reported as touched. *)
touch_file_blind(s, path) == Res(s, 0)

touch_file(s, path) ==
    LET n == walk(s, path, FALSE).node IN
    IF n = NULL THEN Res(s, -1)
    ELSE Res([s EXCEPT !.nodes[n].accessed = s.now, !.nodes[n].modified = s.now], 0)

(***************************************************************************)
(* The descriptor table: slots 0..MAX_OPEN_FILES-1.                        *)
(***************************************************************************)
Fds == 0..(MAX_OPEN_FILES - 1)
FreeSlot == [node |-> NULL, offset |-> 0, flags |-> 0, in_use |-> 0]

(* Mutant: only the range of the handle is tested. *)
BadFd_range_only(s, fd) == fd < 0 \/ fd >= MAX_OPEN_FILES

BadFd(s, fd) == fd < 0 \/ fd >= MAX_OPEN_FILES \/ s.fd_table[fd].in_use = 0

(* Mutant: no mode counts as a write mode. *)
open_wants_write_never(flags) == FALSE

(* (flags & O_WRONLY || flags & O_RDWR) *)
open_wants_write(flags) == BitAnd(flags, O_WRONLY) # 0 \/ BitAnd(flags, O_RDWR) # 0

(* Mutant: the scan takes the last free slot. *)
first_free_last(free) == CHOOSE x \in free : \A y \in free : y <= x

(* for (i = 0; i < MAX_OPEN_FILES; i++) if (!fd_table[i].in_use) *)
first_free(free) == Min(free)

fs_open(s, path, flags) ==
    LET n == walk(s, path, FALSE).node IN
    IF n = NULL \/ s.nodes[n].type # N_FILE THEN Res(s, -1)
    ELSE IF open_wants_write(flags) /\ IsReadOnly(s, n) THEN Res(s, -1)
    ELSE LET free == {i \in Fds : s.fd_table[i].in_use = 0} IN
         IF free = {} THEN Res(s, -1)
         ELSE LET i == first_free(free) IN
              Res([s EXCEPT
                    !.fd_table[i] = [node |-> n, offset |-> 0, flags |-> flags, in_use |-> 1],
                    !.nodes[n].accessed = s.now], i)

fs_close(s, fd) ==
    IF BadFd(s, fd) THEN Res(s, -1)
    ELSE Res([s EXCEPT !.fd_table[fd] = FreeSlot], 0)

(* Mutant: the cursor stays where it was. *)
advance_stuck(offset, len) == offset

(* f->offset += len, f->offset += to_read *)
advance(offset, len) == (offset + len) % SIZE_MOD

(* !(f->flags & O_RDONLY) && !(f->flags & O_RDWR) *)
read_refused(flags) == BitAnd(flags, O_RDONLY) = 0 /\ BitAnd(flags, O_RDWR) = 0

(* !(f->flags & O_WRONLY) && !(f->flags & O_RDWR) *)
write_refused(flags) == BitAnd(flags, O_WRONLY) = 0 /\ BitAnd(flags, O_RDWR) = 0

fs_read_fd(s, fd, has_buf, len) ==
    IF BadFd(s, fd) THEN Res(s, -1)
    ELSE IF ~has_buf THEN Res(s, -1)
    ELSE LET f == s.fd_table[fd]
             n == f.node
         IN  IF read_refused(f.flags) THEN Res(s, -1)
             ELSE IF n = NULL \/ s.nodes[n].type # N_FILE THEN Res(s, -1)
             ELSE IF f.offset >= s.nodes[n].size THEN Res(s, 0)
             ELSE LET avail == s.nodes[n].size - f.offset
                      to_read == IF avail > len THEN len ELSE avail
                  IN  [s |-> [s EXCEPT !.fd_table[fd].offset = advance(@, to_read),
                                       !.nodes[n].accessed = s.now],
                       ret |-> to_read,
                       out |-> SubSeq(s.nodes[n].data, f.offset + 1, f.offset + to_read),
                       fault |-> "none"]

fs_write_fd(s, fd, has_buf, buf, ub) ==
    IF BadFd(s, fd) THEN Res(s, -1)
    ELSE IF ~has_buf THEN Res(s, -1)
    ELSE LET f == s.fd_table[fd]
             n == f.node
         IN  IF write_refused(f.flags) THEN Res(s, -1)
             ELSE IF n = NULL \/ s.nodes[n].type # N_FILE THEN Res(s, -1)
             ELSE IF IsReadOnly(s, n) THEN Res(s, -1)
             ELSE LET need == (f.offset + Len(buf)) % SIZE_MOD
                      e == ensure_cap(s, n, need)
                  IN  IF e.fault # "none" THEN e
                      ELSE IF e.ret < 0 THEN Res(s, -1)
                      ELSE LET w == store(e.s, n, f.offset, buf, need, ub) IN
                           IF w.fault # "none" THEN w
                           ELSE Res([w.s EXCEPT !.fd_table[fd].offset =
                                                    advance(@, Len(buf))], Len(buf))

(* off_t is signed and SIZE_BITS wide: a sum outside its range is signed   *)
(* overflow, which wraps or traps depending on the build.                  *)
off_wrap(x) == ((x + OFF_MAX + 1) % SIZE_MOD) - (OFF_MAX + 1)

fs_seek(s, fd, offset, whence, ub) ==
    IF BadFd(s, fd) THEN Res(s, -1)
    ELSE LET f == s.fd_table[fd]
             n == f.node
         IN  IF n = NULL \/ s.nodes[n].type # N_FILE THEN Res(s, -1)
             ELSE IF whence \notin {SEEK_SET, SEEK_CUR, SEEK_END} THEN Res(s, -1)
             ELSE LET base == IF whence = SEEK_SET THEN 0
                              ELSE IF whence = SEEK_CUR THEN off_wrap(f.offset)
                              ELSE off_wrap(s.nodes[n].size)
                      sum == base + offset
                  IN  IF sum # off_wrap(sum) /\ ub = "trap" THEN Fault(s, "crash")
                      ELSE LET new_offset == off_wrap(sum) IN
                           IF new_offset < 0 THEN Res(s, -1)
                           ELSE Res([s EXCEPT !.fd_table[fd].offset = new_offset],
                                    new_offset)

(***************************************************************************)
(* The state machine.                                                      *)
(***************************************************************************)
NoCall == [op |-> "fs_init", ret |-> 0, out |-> <<>>]

(* fs_init: root = node_new(N_DIR, "", NULL); cwd = root; the static       *)
(* descriptor table is zero-initialised.                                   *)
Init ==
    LET s0 == [nodes |-> [n \in NodeIds |-> BlankNode], live |-> {},
               root |-> NULL, cwd |-> NULL,
               fd_table |-> [i \in Fds |-> FreeSlot], now |-> 0]
        s1 == node_new(s0, 1, N_DIR, <<>>, NULL)
    IN  /\ nodes = s1.nodes
        /\ live = s1.live
        /\ root = 1
        /\ cwd = 1
        /\ fd_table = s1.fd_table
        /\ now = 0
        /\ pc = "ready"
        /\ last = NoCall

(* Whether a relative path makes walk_from (or its caller, on the node it  *)
(* returns) dereference cwd: always, unless a token that is too long ends  *)
(* the walk before the first dereference.                                  *)
RECURSIVE derefs_start(_, _)
derefs_start(toks, i) ==
    IF i > Len(toks) THEN TRUE
    ELSE IF Len(toks[i]) > NAME_MAX THEN FALSE
    ELSE IF toks[i] = Dot THEN derefs_start(toks, i + 1)
    ELSE TRUE

(* The same for mkdir_p, which returns 0 for a path of "." tokens only. *)
RECURSIVE mkdir_derefs_start(_, _)
mkdir_derefs_start(toks, i) ==
    IF i > Len(toks) THEN FALSE
    ELSE IF Len(toks[i]) > NAME_MAX THEN FALSE
    ELSE IF toks[i] = Dot THEN mkdir_derefs_start(toks, i + 1)
    ELSE TRUE

Dangling(n) == n # NULL /\ n \notin live

WalkUB(path) == ~IsAbsolute(path) /\ Dangling(cwd) /\ derefs_start(Tokens(path), 1)
MkdirUB(path) == ~IsAbsolute(path) /\ Dangling(cwd) /\ mkdir_derefs_start(Tokens(path), 1)
FdUB(fd) == fd \in Fds /\ fd_table[fd].in_use # 0 /\ Dangling(fd_table[fd].node)

Outcomes(ub) == IF ub THEN FreeOutcomes ELSE {"stale"}

(* A call returns (or hangs, or kills the process) and leaves its state.   *)
(* ub: the call dereferenced a dangling pointer.                           *)
Apply(op, r, ub) ==
    /\ pc = "ready"
    /\ r.fault # "nomem"
    /\ LET s2 == Forget(r.s) IN
        /\ nodes' = s2.nodes
        /\ live' = s2.live
        /\ root' = s2.root
        /\ cwd' = s2.cwd
        /\ fd_table' = s2.fd_table
    /\ now' = now
    /\ pc' = IF r.fault # "none" THEN r.fault ELSE IF ub THEN "undefined" ELSE "ready"
    /\ last' = [op |-> op, ret |-> r.ret, out |-> r.out]

(* time(NULL) moves on between calls. *)
Tick ==
    /\ pc = "ready"
    /\ now < MaxClock
    /\ now' = now + 1
    /\ UNCHANGED <<nodes, live, root, cwd, fd_table, pc, last>>

(* Paths over the names a and b: absolute, relative, nested, "/" and "..". *)
TreePaths ==
    { <<"/">>, <<"/", "a">>, <<"/", "b">>, <<"a">>, <<"/", "a", "/", "b">>, <<".", ".">> }

Slots == IF AllocChoices(St) = {} THEN {NULL} ELSE AllocChoices(St)

MkdirP(P) == \E p \in P : \E id \in Slots, o \in Outcomes(MkdirUB(p)) :
    Apply("mkdir_p", mkdir_p(ReadFreed(St, o), p, id), MkdirUB(p))

CreateFile(P) == \E p \in P : \E id \in Slots, o \in Outcomes(WalkUB(p)) :
    Apply("create_file", create_file(ReadFreed(St, o), p, id), WalkUB(p))

RmFile(P) == \E p \in P : \E o \in Outcomes(WalkUB(p)) :
    Apply("rm_file", rm_file(ReadFreed(St, o), p), WalkUB(p))

RmdirEmpty(P) == \E p \in P : \E o \in Outcomes(WalkUB(p)) :
    Apply("rmdir_empty", rmdir_empty(ReadFreed(St, o), p), WalkUB(p))

RenameFile(P, Q) == \E p \in P, q \in Q : \E o \in Outcomes(WalkUB(p) \/ WalkUB(q)) :
    Apply("rename_file", rename_file(ReadFreed(St, o), p, q), WalkUB(p) \/ WalkUB(q))

FsCd(P) == \E p \in P : \E o \in Outcomes(WalkUB(p)) :
    Apply("fs_cd", fs_cd(ReadFreed(St, o), p), WalkUB(p))

SetFileAttributes(P, A) == \E p \in P, a \in A : \E o \in Outcomes(WalkUB(p)) :
    Apply("set_file_attributes", set_file_attributes(ReadFreed(St, o), p, a), WalkUB(p))

(* A write is explored when it keeps the file within MaxData bytes, or     *)
(* asks for more than the first allocation holds.                          *)
Explored(need) == need <= MaxData \/ need > INIT_CAP

WriteFile(P, O, B) == \E p \in P, off \in O, buf \in B :
    \E o \in Outcomes(WalkUB(p)), ub \in UbOutcomes :
        /\ Explored(off + Len(buf))
        /\ Apply("write_file", write_file(ReadFreed(St, o), p, off, buf, ub), WalkUB(p))

ReadFile(P, O, L) == \E p \in P, off \in O, len \in L : \E o \in Outcomes(WalkUB(p)) :
    Apply("read_file", read_file(ReadFreed(St, o), p, off, len), WalkUB(p))

GetFileInfo(P) == \E p \in P, has_info \in BOOLEAN : \E o \in Outcomes(WalkUB(p) /\ has_info) :
    Apply("get_file_info", get_file_info(ReadFreed(St, o), p, has_info), WalkUB(p) /\ has_info)

TouchFile(P) == \E p \in P : \E o \in Outcomes(WalkUB(p)) :
    Apply("touch_file", touch_file(ReadFreed(St, o), p), WalkUB(p))

FsSearch(T) == \E term \in T : \E o \in Outcomes(Dangling(cwd) /\ term # <<>>) :
    Apply("fs_search", fs_search(ReadFreed(St, o), term), Dangling(cwd) /\ term # <<>>)

FsOpen(P, F) == \E p \in P, flags \in F : \E o \in Outcomes(WalkUB(p)) :
    Apply("fs_open", fs_open(ReadFreed(St, o), p, flags), WalkUB(p))

FsClose(D) == \E fd \in D : Apply("fs_close", fs_close(St, fd), FALSE)

FsReadFd(D, L) == \E fd \in D, len \in L, has_buf \in BOOLEAN : \E o \in Outcomes(FdUB(fd)) :
    Apply("fs_read_fd", fs_read_fd(ReadFreed(St, o), fd, has_buf, len),
          FdUB(fd) /\ has_buf)

FsWriteFd(D, B) == \E fd \in D, buf \in B, has_buf \in BOOLEAN :
    \E o \in Outcomes(FdUB(fd)), ub \in UbOutcomes :
        /\ fd \in Fds => Explored(fd_table[fd].offset + Len(buf))
        /\ Apply("fs_write_fd", fs_write_fd(ReadFreed(St, o), fd, has_buf, buf, ub),
                 FdUB(fd) /\ has_buf)

FsSeek(D, A) == \E fd \in D, a \in A : \E o \in Outcomes(FdUB(fd)), ub \in UbOutcomes :
    Apply("fs_seek", fs_seek(ReadFreed(St, o), fd, a[1], a[2], ub), FdUB(fd))

(***************************************************************************)
(* The specifications.  Each starts from fs_init and applies a group of    *)
(* the operations to a small set of arguments.                             *)
(***************************************************************************)
(* The paths each tree operation is called with. *)
MkdirPaths == { <<"/", "a">>, <<"/", "b">>, <<"a">> }
CreatePaths == { <<"/", "a", "/", "b">>, <<"/", "b">> }
RmPaths == { <<"/", "b">>, <<"/", "a", "/", "b">> }
RmdirPaths == { <<"/", "a">> }
RenameFrom == { <<"/", "a", "/", "b">>, <<"/", "a">>, <<"/", "b">> }
RenameTo == { <<"/">>, <<"/", "b">>, <<"/", "a", "/", "b">> }
CdPaths == { <<"/", "a">>, <<".", ".">> }

NextTree ==
    \/ MkdirP(MkdirPaths)
    \/ CreateFile(CreatePaths)
    \/ RmFile(RmPaths)
    \/ RmdirEmpty(RmdirPaths)
    \/ RenameFile(RenameFrom, RenameTo)
    \/ FsCd(CdPaths)

SpecTree == Init /\ [][NextTree]_vars

FilePath == <<"/", "f">>
DirPath == <<"/", "d">>
Bufs == { <<1>>, <<2, 1>> }
Lens == {1, 2}
Attrs == {ATTR_NONE, ATTR_READONLY, ATTR_HIDDEN}
Offsets == {0, 1, INIT_CAP - 1, OFF_MAX, SIZE_MAX}

(* Files read and written by path. *)
NextPath ==
    \/ CreateFile({FilePath})
    \/ MkdirP({DirPath})
    \/ SetFileAttributes({FilePath}, Attrs)
    \/ WriteFile({FilePath, DirPath}, Offsets, Bufs)
    \/ ReadFile({FilePath, DirPath}, Offsets, Lens)

SpecPath == Init /\ [][NextPath]_vars

FdArgs == {-1, 0, 1, MAX_OPEN_FILES}
OpenFlags == {O_RDONLY, O_WRONLY, O_RDWR}
SeekArgs ==
    { <<0, SEEK_SET>>, <<-1, SEEK_SET>>, <<OFF_MAX, SEEK_SET>>, <<0, SEEK_END>>,
      <<0, SEEK_CUR>>, <<0, 3>> }

(* Files read and written through descriptors. *)
NextFd ==
    \/ CreateFile({FilePath})
    \/ FsOpen({FilePath}, OpenFlags)
    \/ FsClose(FdArgs)
    \/ FsReadFd(FdArgs, Lens)
    \/ FsWriteFd(FdArgs, Bufs)
    \/ FsSeek(FdArgs, SeekArgs)

SpecFd == Init /\ [][NextFd]_vars

(* Opening with each mode, on files with and without the read-only         *)
(* attribute, until the descriptor table is full.                          *)
NextOpen ==
    \/ CreateFile({FilePath})
    \/ MkdirP({DirPath})
    \/ SetFileAttributes({FilePath}, {ATTR_NONE, ATTR_READONLY})
    \/ WriteFile({FilePath}, {0}, {<<2, 1>>})
    \/ FsOpen({FilePath, DirPath}, OpenFlags \cup {0})
    \/ FsClose(FdArgs)
    \/ FsReadFd(FdArgs, Lens)

SpecOpen == Init /\ [][NextOpen]_vars

Spec == SpecTree

(***************************************************************************)
(* Properties.                                                             *)
(***************************************************************************)
IsLiveFile(n) == n # NULL /\ n \in live /\ nodes[n].type = N_FILE
IsLiveDir(n) == n # NULL /\ n \in live /\ nodes[n].type = N_DIR
Occurrences(q, x) == Cardinality({i \in 1..Len(q) : q[i] = x})
OpenFds == {fd \in Fds : fd_table[fd].in_use # 0}

Resolve(p) == walk(St, p, FALSE).node

ReadsBack(p, off, buf, ub) ==
    LET w == write_file(St, p, off, buf, ub) IN
    /\ w.fault = "none"
    /\ w.ret = Len(buf)
    /\ LET r == read_file(w.s, p, off, Len(buf)) IN
        r.ret = Len(buf) /\ r.out = buf

WritableFile(p) == IsLiveFile(Resolve(p)) /\ ~IsReadOnly(St, Resolve(p))

(* The buffer of f can be grown to hold n bytes. *)
CanGrowTo(f, n) ==
    /\ n <= SIZE_MAX
    /\ LET e == ensure_cap(St, f, n) IN e.fault = "none" /\ e.ret = 0

(* C1, as claimed: for every existing file that is not read-only, every    *)
(* offset and every non-empty byte string, write_file returns the length   *)
(* and the read_file that follows returns the length and the same bytes.   *)
C1_ReadAfterWriteAnyOffset ==
    pc = "ready" =>
        \A off \in 0..SIZE_MAX, buf \in Bufs, ub \in UbOutcomes :
            WritableFile(FilePath) => ReadsBack(FilePath, off, buf, ub)

(* C1, amended: the same for every offset and byte string whose end        *)
(* off + len the file's buffer can be grown to hold.                       *)
C1_ReadAfterWrite ==
    pc = "ready" =>
        \A off \in 0..SIZE_MAX, buf \in Bufs, ub \in UbOutcomes :
            (WritableFile(FilePath) /\ CanGrowTo(Resolve(FilePath), off + Len(buf)))
                => ReadsBack(FilePath, off, buf, ub)

(* A read_file has just returned the two bytes a write_file stored. *)
C1_Witness ==
    /\ last.op = "read_file" /\ last.ret = 2 /\ last.out = <<2, 1>>
    /\ WritableFile(FilePath)
    /\ ReadsBack(FilePath, 0, <<2, 1>>, "trap")

C2_Case(fd, buf, buf2, ub) ==
    LET f == fd_table[fd].node
        c == fd_table[fd].offset
        n == Len(buf)
        w == fs_write_fd(St, fd, TRUE, buf, ub)
    IN  (w.fault = "none" /\ w.ret >= 0) =>
            /\ w.ret = n
            /\ w.s.fd_table[fd].offset = c + n
            /\ LET w2 == fs_write_fd(w.s, fd, TRUE, buf2, ub) IN
                (w2.fault = "none" /\ w2.ret >= 0) =>
                    SubSeq(w2.s.nodes[f].data, c + 1, c + n + Len(buf2)) = buf \o buf2
            /\ LET r == fs_read_fd(w.s, fd, TRUE, n) IN
                r.ret >= 0 =>
                    /\ r.out = SubSeq(w.s.nodes[f].data, c + n + 1, c + n + r.ret)
                    /\ r.s.fd_table[fd].offset = c + n + r.ret
            /\ LET k == fs_seek(w.s, fd, c, SEEK_SET, ub)
                   r == fs_read_fd(k.s, fd, TRUE, n)
               IN  k.ret = c /\ r.ret = n /\ r.out = buf

C3_OneParent ==
    \A n \in live \ {root} :
        LET p == nodes[n].parent IN
        /\ IsLiveDir(p)
        /\ Occurrences(nodes[p].children, n) = 1
        /\ \A d \in live \ {p} : Occurrences(nodes[d].children, n) = 0

(* C4: no directory holds two children with the same name. *)
C4_UniqueNames ==
    \A d \in live :
        nodes[d].type = N_DIR =>
            \A i, j \in 1..Len(nodes[d].children) :
                i # j => nodes[nodes[d].children[i]].name # nodes[nodes[d].children[j]].name

(* A create_file has just been refused in a root that holds two entries,   *)
(* one of them with the name asked for.                                    *)
C4_Witness ==
    /\ pc = "ready"
    /\ last.op = "create_file" /\ last.ret = -1
    /\ Len(nodes[root].children) = 2
    /\ dir_find(St, root, <<"a">>) # NULL

(* C5: the path node_get_path builds for a node resolves to that node. *)
C5_PathRoundTrip ==
    \A n \in live :
        walk_from(St, root, node_get_path(St, n, PATH_BUF), FALSE).node = n

ListedPaths == TreePaths \cup {<<>>, Dot}

(* C6: every child a directory holds, and so every entry ls_dir prints for *)
(* it, has that directory as its parent, and the path of the entry's       *)
(* parent is the path of the directory.                                    *)
C6_Containment ==
    /\ \A d \in live :
        nodes[d].type = N_DIR =>
            \A i \in 1..Len(nodes[d].children) : nodes[nodes[d].children[i]].parent = d
    /\ \A p \in ListedPaths :
        LET d == ls_target(St, p)
            r == ls_dir(St, p)
        IN  (IsLiveDir(d) /\ r.ret = 0) =>
                \A i \in 1..Len(r.out) :
                    /\ nodes[r.out[i]].parent = d
                    /\ node_get_path(St, nodes[r.out[i]].parent, PATH_BUF)
                         = node_get_path(St, d, PATH_BUF)

(* A rename_file has just moved a node into a directory below the root,    *)
(* which ls_dir lists.                                                     *)
C6_Witness ==
    /\ pc = "ready"
    /\ last.op = "rename_file" /\ last.ret = 0
    /\ \E d \in live \ {root} :
        /\ nodes[d].type = N_DIR /\ nodes[d].parent = root
        /\ Len(nodes[d].children) = 1
        /\ d = ls_target(St, <<"/", "a">>)
        /\ ls_dir(St, <<"/", "a">>).out = nodes[d].children

(* The destination of new_path holds an entry with the new leaf name. *)
Collides(new_path) ==
    LET w == walk(St, new_path, TRUE) IN
    w.node # NULL /\ dir_find(St, w.node, w.leaf) # NULL

(* C7: rename_file fails when the destination directory holds an entry     *)
(* with the new leaf name, and then changes nothing.                       *)
C7_CollisionRefused ==
    \A old \in TreePaths, new \in TreePaths :
        Collides(new) =>
            LET r == rename_file(St, old, new) IN
            r.ret = -1 /\ r.fault = "none" /\ r.s = St

(* A rename_file has just failed where a movable node was to go to another *)
(* directory under a name taken there.                                     *)
C7_Witness ==
    /\ pc = "ready"
    /\ last.op = "rename_file" /\ last.ret = -1
    /\ \E old \in TreePaths, new \in TreePaths :
        LET n == Resolve(old) IN
        /\ n # NULL /\ n \in live /\ n # root
        /\ Collides(new)
        /\ walk(St, new, TRUE).node # nodes[n].parent
        /\ dir_find(St, walk(St, new, TRUE).node, walk(St, new, TRUE).leaf) # n
        /\ rename_file(St, old, new).ret = -1

WriteModes == {O_WRONLY, O_RDWR}
ReadOnlyFile(p) == IsLiveFile(Resolve(p)) /\ IsReadOnly(St, Resolve(p))
TableFull == \A i \in Fds : fd_table[i].in_use # 0

(* C8: fs_open with O_WRONLY or O_RDWR on a read-only file fails and every *)
(* slot that was free is still free.                                       *)
C8_ReadOnlyOpenRefused ==
    \A flags \in WriteModes :
        ReadOnlyFile(FilePath) =>
            LET r == fs_open(St, FilePath, flags) IN
            /\ r.ret = -1
            /\ \A i \in Fds : fd_table[i].in_use = 0 => r.s.fd_table[i].in_use = 0
            /\ r.s.fd_table = fd_table

(* An fs_open has just failed on a read-only file while a slot is free. *)
C8_Witness ==
    /\ last.op = "fs_open" /\ last.ret = -1
    /\ ReadOnlyFile(FilePath)
    /\ ~TableFull
    /\ fs_open(St, FilePath, O_WRONLY).ret = -1

(* C9: fs_open fails only when the path is no file, when the mode includes *)
(* write and the file is read-only, or when no slot is free.               *)
C9_OpenFailsOnlyWhen ==
    \A p \in {FilePath, DirPath}, flags \in OpenFlags :
        fs_open(St, p, flags).ret = -1 =>
            \/ ~IsLiveFile(Resolve(p))
            \/ (flags \in WriteModes /\ IsReadOnly(St, Resolve(p)))
            \/ TableFull

(* C10: fs_read_fd on a descriptor opened O_WRONLY fails, returns no bytes *)
(* and leaves the cursor where it was.                                     *)
C10_WriteOnlyReadRefused ==
    \A fd \in OpenFds, len \in Lens :
        (fd_table[fd].flags = O_WRONLY /\ IsLiveFile(fd_table[fd].node)) =>
            LET r == fs_read_fd(St, fd, TRUE, len) IN
            /\ r.ret = -1
            /\ r.out = <<>>
            /\ r.s.fd_table[fd].offset = fd_table[fd].offset

(* C11: fs_write_fd on a descriptor opened O_RDONLY fails and leaves the   *)
(* file's content, size and capacity and the descriptor's cursor as they   *)
(* were.                                                                   *)
C11_ReadOnlyModeWriteRefused ==
    \A fd \in OpenFds, buf \in Bufs, ub \in UbOutcomes :
        (fd_table[fd].flags = O_RDONLY /\ IsLiveFile(fd_table[fd].node)) =>
            LET f == fd_table[fd].node
                r == fs_write_fd(St, fd, TRUE, buf, ub)
            IN  /\ r.fault = "none"
                /\ r.ret = -1
                /\ r.s.nodes[f].data = nodes[f].data
                /\ r.s.nodes[f].size = nodes[f].size
                /\ r.s.nodes[f].cap = nodes[f].cap
                /\ r.s.fd_table[fd].offset = fd_table[fd].offset

(***************************************************************************)
(* Read-only files: /f is written by path and through descriptors opened   *)
(* for writing, and is flagged read-only and unflagged in between.         *)
(***************************************************************************)
RoAttrs == {ATTR_NONE, ATTR_READONLY}

NextAttr ==
    \/ CreateFile({FilePath})
    \/ SetFileAttributes({FilePath}, RoAttrs)
    \/ WriteFile({FilePath}, {0}, {<<2, 1>>})
    \/ FsOpen({FilePath}, WriteModes)
    \/ FsWriteFd({0, 1}, {<<1>>})
    \/ FsClose({0})

SpecAttr == Init /\ [][NextAttr]_vars

(* The node carries the attribute bit. *)
Flagged(n, bit) == (nodes[n].attributes \div bit) % 2 = 1

SameContent(s, f) ==
    /\ s.nodes[f].data = nodes[f].data
    /\ s.nodes[f].size = nodes[f].size

(* C12: while a file is read-only, every write_file and every fs_write_fd  *)
(* on it returns an error and leaves its content and size as they were,    *)
(* also through a descriptor opened for writing before the flag was set.   *)
C12_ReadOnlyNeverWritten ==
    \A f \in live :
        (nodes[f].type = N_FILE /\ Flagged(f, ATTR_READONLY)) =>
            /\ \A p \in {FilePath}, off \in Offsets, buf \in Bufs, ub \in UbOutcomes :
                Resolve(p) = f =>
                    LET r == write_file(St, p, off, buf, ub) IN
                    r.fault = "none" /\ r.ret = -1 /\ SameContent(r.s, f)
            /\ \A fd \in OpenFds, buf \in Bufs, ub \in UbOutcomes :
                fd_table[fd].node = f =>
                    LET r == fs_write_fd(St, fd, TRUE, buf, ub) IN
                    r.fault = "none" /\ r.ret = -1 /\ SameContent(r.s, f)

(* An fs_write_fd has just been refused on a read-only file that holds two *)
(* bytes, through a descriptor whose mode includes write.                  *)
C12_Witness ==
    /\ pc = "ready"
    /\ last.op = "fs_write_fd" /\ last.ret = -1
    /\ ReadOnlyFile(FilePath)
    /\ nodes[Resolve(FilePath)].size = 2
    /\ fd_table[0].in_use # 0
    /\ fd_table[0].flags \in WriteModes
    /\ fd_table[0].node = Resolve(FilePath)

(***************************************************************************)
(* Removal: a file /f, a directory /d and a file /d/f are created, flagged *)
(* read-only (as is the root) and removed.                                 *)
(***************************************************************************)
RootPath == <<"/">>
InnerPath == <<"/", "d", "/", "f">>
AttrPaths == {RootPath, FilePath, DirPath}

NextRemove ==
    \/ CreateFile({FilePath, InnerPath})
    \/ MkdirP({DirPath})
    \/ SetFileAttributes(AttrPaths, RoAttrs)
    \/ WriteFile({FilePath}, {0}, {<<2, 1>>})
    \/ RmFile({FilePath, InnerPath})
    \/ RmdirEmpty({DirPath})

SpecRemove == Init /\ [][NextRemove]_vars

RmdirPathsTried == {DirPath, RootPath, <<"/", "d", "/", ".">>, <<"d">>}

(* C13: rmdir_empty fails on a directory that has children; on an empty    *)
(* directory other than the root, with neither it nor its parent flagged   *)
(* read-only, it succeeds whatever siblings it has and wherever it stands  *)
(* among them, and then that directory alone is gone: the parent keeps     *)
(* every other child and every other node is as it was.                    *)
C13_RmdirEmpty ==
    \A p \in RmdirPathsTried :
        LET d == Resolve(p)
            r == rmdir_empty(St, p)
        IN  IsLiveDir(d) =>
            /\ Len(nodes[d].children) > 0 => (r.ret = -1 /\ r.s = St)
            /\ ( /\ Len(nodes[d].children) = 0
                 /\ d # root
                 /\ ~Flagged(d, ATTR_READONLY)
                 /\ ~Flagged(nodes[d].parent, ATTR_READONLY) ) =>
                    LET q == nodes[d].parent IN
                    /\ r.fault = "none" /\ r.ret = 0
                    /\ r.s.live = live \ {d}
                    /\ Range(r.s.nodes[q].children) = Range(nodes[q].children) \ {d}
                    /\ Len(r.s.nodes[q].children) = Len(nodes[q].children) - 1
                    /\ \A n \in live \ {d, q} : r.s.nodes[n] = nodes[n]

(* An rmdir_empty has just removed /d; its sibling /f is still the root's  *)
(* child.                                                                  *)
C13_Witness ==
    /\ pc = "ready"
    /\ last.op = "rmdir_empty" /\ last.ret = 0
    /\ Resolve(DirPath) = NULL
    /\ IsLiveFile(Resolve(FilePath))
    /\ nodes[root].children = <<Resolve(FilePath)>>

(* C14: rm_file fails when the file or the directory that holds it is      *)
(* flagged read-only; afterwards nothing has changed: the file is still a  *)
(* child of the directory, listed by ls_dir, with its content.             *)
C14_ReadOnlyRmRefused ==
    \A p \in {FilePath, InnerPath} :
        LET f == Resolve(p)
            r == rm_file(St, p)
        IN  (IsLiveFile(f) /\ (Flagged(f, ATTR_READONLY)
                               \/ Flagged(nodes[f].parent, ATTR_READONLY))) =>
                /\ r.fault = "none" /\ r.ret = -1
                /\ r.s = St
                /\ f \in r.s.live
                /\ walk(r.s, p, FALSE).node = f
                /\ f \in Range(ls_dir(r.s, node_get_path(St, nodes[f].parent, PATH_BUF)).out)
                /\ SameContent(r.s, f)

(* An rm_file has just been refused for the two-byte file /f, which is not *)
(* flagged itself, in a root flagged read-only.                            *)
C14_Witness ==
    /\ pc = "ready"
    /\ last.op = "rm_file" /\ last.ret = -1
    /\ IsLiveFile(Resolve(FilePath))
    /\ nodes[Resolve(FilePath)].size = 2
    /\ ~Flagged(Resolve(FilePath), ATTR_READONLY)
    /\ Flagged(root, ATTR_READONLY)
    /\ rm_file(St, FilePath).ret = -1

(***************************************************************************)
(* Search: a directory /a with a file /a/b, a file /ab beside it, the      *)
(* cursor in / or /a, and /a renamed or removed.                           *)
(***************************************************************************)
Terms == { <<>>, <<"a">>, <<"b">>, <<"a", "b">> }

NextSearch ==
    \/ MkdirP({<<"/", "a">>})
    \/ CreateFile({<<"/", "a", "/", "b">>, <<"/", "a", "b">>})
    \/ FsCd({<<"/", "a">>, RootPath})
    \/ RenameFile({<<"/", "a">>}, {<<"/", "b">>, <<"/", "a", "/", "b">>})
    \/ RmdirEmpty({<<"/", "a">>})
    \/ FsSearch(Terms)

SpecSearch == Init /\ [][NextSearch]_vars

(* The nodes reached from the nodes of S through child collections. *)
RECURSIVE Below(_)
Below(S) ==
    LET T == S \cup UNION { Range(nodes[n].children) : n \in S } IN
    IF T = S THEN S ELSE Below(T)

(* C15: fs_search of a term that is not empty returns the number of nodes  *)
(* at or below the current directory, the root not counted, whose name     *)
(* contains the term; fs_search of the empty term returns an error.        *)
C15_SearchCounts ==
    pc = "ready" =>
        \A term \in Terms :
            LET r == fs_search(St, term) IN
            IF term = <<>> THEN r.ret = -1
            ELSE /\ r.fault = "none"
                 /\ r.ret = Cardinality({ n \in Below({cwd}) \ {root} :
                                            Contains(nodes[n].name, term) })

(***************************************************************************)
(* Failing calls: every operation but rename_file, on paths that resolve,  *)
(* that do not, and that hold a name of NAME_MAX + 1 characters behind a   *)
(* directory to be made.                                                   *)
(***************************************************************************)
LongName == [i \in 1..(NAME_MAX + 1) |-> "x"]
LongPath == <<"/", "d", "/">> \o LongName
(* An offset whose write needs a buffer realloc does not grant. *)
RefusedOffset == (PTRDIFF_MAX + 1) \div 2

NextFail ==
    \/ MkdirP({LongPath})
    \/ CreateFile({FilePath})
    \/ RmFile({DirPath})
    \/ RmdirEmpty({FilePath})
    \/ WriteFile({FilePath}, {RefusedOffset}, {<<1>>})
    \/ ReadFile({FilePath}, {0}, {1})
    \/ FsCd({FilePath})
    \/ FsOpen({FilePath}, {O_RDWR})
    \/ FsClose({0})
    \/ FsReadFd({0}, {1})
    \/ FsWriteFd({0}, {<<1>>})
    \/ FsSeek({0}, {<<-1, SEEK_SET>>})
    \/ GetFileInfo({FilePath})
    \/ SetFileAttributes({FilePath}, RoAttrs)
    \/ TouchFile({FilePath})

SpecFail == Init /\ [][NextFail]_vars

(* What a caller can observe of a state, times left out: the nodes of the  *)
(* tree with names, links, attributes and content, the cursor and the      *)
(* descriptor table.                                                       *)
Observable(s) ==
    [ live |-> s.live,
      root |-> s.root,
      cwd |-> s.cwd,
      fd_table |-> s.fd_table,
      nodes |-> [ n \in s.live |->
                    [ type |-> s.nodes[n].type, name |-> s.nodes[n].name,
                      parent |-> s.nodes[n].parent, children |-> s.nodes[n].children,
                      attributes |-> s.nodes[n].attributes,
                      size |-> s.nodes[n].size,
                      data |-> SubSeq(s.nodes[n].data, 1, s.nodes[n].size) ] ] ]

(* C16: a call of any operation but rename_file that returns an error      *)
(* leaves the tree, the contents, sizes and attributes, the cursor and the *)
(* descriptor table as they were; a failed mkdir_p has made no directory.  *)
C16_FailureChangesNothing ==
    [][ (pc' = "ready" /\ last'.ret = -1 /\ last'.op # "rename_file")
            => Observable(St)' = Observable(St) ]_vars

(***************************************************************************)
(* Names: paths whose last name has one, NAME_MAX and NAME_MAX + 1         *)
(* characters, given to the operations that name a node.                   *)
(***************************************************************************)
FullName == [i \in 1..NAME_MAX |-> "y"]
NamePaths ==
    { <<"/", "a">>, <<"/">> \o FullName, <<"/">> \o LongName, <<"/", "a", "/">> \o FullName }

NextName ==
    \/ MkdirP(NamePaths)
    \/ CreateFile(NamePaths)
    \/ RenameFile(NamePaths, NamePaths)
    \/ RmFile(NamePaths)

SpecName == Init /\ [][NextName]_vars

(* C17: every node's name is shorter than NAME_MAX characters (at most 31  *)
(* bytes where NAME_MAX is 32).                                            *)
C17_NamesBelowNameMax ==
    \A n \in live : Len(nodes[n].name) <= NAME_MAX - 1

(* C18: every node but the root has a name that is not empty and is        *)
(* neither "." nor "..".                                                   *)
C18_ProperNames ==
    \A n \in live \ {root} : nodes[n].name \notin {<<>>, Dot, DotDot}

RootAliases == TreePaths \cup { <<>>, Dot, <<"/", "a", "/", ".", ".">> }

(* C19: the root is there in every state, a directory with the empty name  *)
(* and no parent; rmdir_empty and rename_file of a path that resolves to   *)
(* the root fail and change nothing.                                       *)
C19_RootStays ==
    /\ root \in live
    /\ nodes[root].type = N_DIR
    /\ nodes[root].name = <<>>
    /\ nodes[root].parent = NULL
    /\ \A p \in RootAliases :
        (Resolve(p) = root /\ ~WalkUB(p)) =>
            /\ LET r == rmdir_empty(St, p) IN
                r.fault = "none" /\ r.ret = -1 /\ r.s = St
            /\ \A q \in TreePaths :
                LET r == rename_file(St, p, q) IN
                r.fault = "none" /\ r.ret = -1 /\ r.s = St

(* An rmdir_empty or a rename_file has just failed while the cursor is in  *)
(* /a, from where ".." and "/a/.." resolve to the root.                    *)
C19_Witness ==
    /\ pc = "ready"
    /\ last.op \in {"rmdir_empty", "rename_file"} /\ last.ret = -1
    /\ cwd \in live /\ cwd # root /\ nodes[cwd].parent = root
    /\ Resolve(DotDot) = root
    /\ Resolve(<<"/", "a", "/", ".", ".">>) = root
    /\ rmdir_empty(St, DotDot).ret = -1
    /\ rename_file(St, DotDot, <<"/", "b">>).ret = -1

OpenTried == {FilePath, DirPath}

IsFreeFd(t, fd) == fd \notin Fds \/ t[fd].in_use = 0

(* Every call that takes a handle fails on it. *)
HandleDead(s, fd) ==
    /\ fs_close(s, fd).ret = -1
    /\ \A len \in Lens : fs_read_fd(s, fd, TRUE, len).ret = -1
    /\ \A buf \in Bufs, ub \in UbOutcomes : fs_write_fd(s, fd, TRUE, buf, ub).ret = -1
    /\ \A a \in SeekArgs, ub \in UbOutcomes : fs_seek(s, fd, a[1], a[2], ub).ret = -1

CloseContract ==
    \A fd \in FdArgs :
        LET r == fs_close(St, fd) IN
        /\ IsFreeFd(fd_table, fd) => (r.ret = -1 /\ r.s = St /\ HandleDead(St, fd))
        /\ ~IsFreeFd(fd_table, fd) =>
            /\ r.ret = 0
            /\ r.s.fd_table[fd].in_use = 0
            /\ \A i \in Fds \ {fd} : r.s.fd_table[i] = fd_table[i]
            /\ r.s.nodes = nodes /\ r.s.live = live
            /\ HandleDead(r.s, fd)

(* A slot leaves Free only as the result of the fs_open that returns it,   *)
(* and leaves Open only by a successful fs_close.                          *)
SlotStep ==
    \A fd \in Fds :
        /\ (fd_table[fd].in_use = 0 /\ fd_table'[fd].in_use # 0) =>
                (last'.op = "fs_open" /\ last'.ret = fd)
        /\ (fd_table[fd].in_use # 0 /\ fd_table'[fd].in_use = 0) =>
                (last'.op = "fs_close" /\ last'.ret = 0)

(* C21: fs_close fails and changes nothing for a handle out of range or a  *)
(* free slot; a successful fs_close frees exactly that slot, and fs_close, *)
(* fs_read_fd, fs_write_fd and fs_seek fail on a free handle until an      *)
(* fs_open returns it again.                                               *)
C21_SlotLifecycle == [](CloseContract) /\ [][SlotStep]_vars

(* Slot 0 has just been closed while slot 1 stays open. *)
C21_Witness ==
    /\ last.op = "fs_close" /\ last.ret = 0
    /\ fd_table[0].in_use = 0 /\ fd_table[1].in_use # 0
    /\ HandleDead(St, 0)
    /\ fs_open(St, FilePath, O_RDWR).ret = 0

NoPath == <<"/", "x">>
MetaPaths == {FilePath, DirPath, NoPath}
MetaAttrs == {ATTR_NONE, ATTR_READONLY, ATTR_HIDDEN, ATTR_READONLY + ATTR_HIDDEN}
MetaOffsets == {0, 1}
MetaBufs == { <<1>>, <<1, 1>> }

(* Files and directories whose metadata is read and set while the clock    *)
(* moves on.                                                                *)
NextMeta ==
    \/ CreateFile({FilePath})
    \/ MkdirP({DirPath})
    \/ WriteFile({FilePath}, MetaOffsets, MetaBufs)
    \/ ReadFile({FilePath, NoPath}, MetaOffsets, Lens)
    \/ SetFileAttributes({FilePath, NoPath}, MetaAttrs)
    \/ SetFileAttributes({DirPath}, {ATTR_NONE, ATTR_HIDDEN})
    \/ GetFileInfo(MetaPaths)
    \/ TouchFile({FilePath, NoPath})
    \/ Tick

SpecMeta == Init /\ [][NextMeta]_vars

(* C22: a successful read_file leaves everything but the accessed time of  *)
(* the file as it was: modified time, content, size, attributes, the tree  *)
(* and the descriptor table.                                               *)
C22_ReadOnlyStampsAccessed ==
    \A p \in MetaPaths, off \in MetaOffsets, len \in Lens :
        LET r == read_file(St, p, off, len)
            f == Resolve(p)
        IN  r.ret >= 0 =>
            /\ IsLiveFile(f)
            /\ [r.s EXCEPT !.nodes[f].accessed = nodes[f].accessed] = St
            /\ r.ret > 0 => r.s.nodes[f].accessed = now

(* A read_file has just returned bytes of a file last modified at an       *)
(* earlier time.                                                           *)
C22_Witness ==
    /\ last.op = "read_file" /\ last.ret > 0
    /\ IsLiveFile(Resolve(FilePath))
    /\ nodes[Resolve(FilePath)].modified < now
    /\ nodes[Resolve(FilePath)].accessed = now
    /\ nodes[Resolve(FilePath)].attributes # ATTR_NONE

ReportedSize(s, p) == get_file_info(s, p, TRUE).out[1].size

(* C23: after a successful write_file(path, off, data, len) the size that  *)
(* get_file_info reports is the larger of the previous size and off + len. *)
C23_SizeAfterWrite ==
    pc = "ready" =>
        \A off \in 0..SIZE_MAX, buf \in Bufs, ub \in UbOutcomes :
            LET w == write_file(St, FilePath, off, buf, ub) IN
            (IsLiveFile(Resolve(FilePath)) /\ w.fault = "none" /\ w.ret = Len(buf)) =>
                ReportedSize(w.s, FilePath) =
                    IF off + Len(buf) > ReportedSize(St, FilePath)
                    THEN off + Len(buf) ELSE ReportedSize(St, FilePath)

(* Every combination of the four attribute flags. *)
AttrBits == 0..(2 * ATTR_ARCHIVE - 1)
NodePaths == MetaPaths \cup {RootPath}
ReportedAttributes(s, p) == get_file_info(s, p, TRUE).out[1].attributes

(* C24: for every existing node and every value bits, after                *)
(* set_file_attributes(path, bits) get_file_info(path) reports attributes  *)
(* equal to bits, whatever they were before; ATTR_NONE clears every flag.  *)
C24_AttributesReplaced ==
    \A p \in NodePaths, bits \in AttrBits :
        Resolve(p) # NULL =>
            LET r == set_file_attributes(St, p, bits) IN
            /\ r.ret = 0
            /\ ReportedAttributes(r.s, p) = bits
            /\ r.s.nodes[Resolve(p)].attributes = bits

(* A set_file_attributes has just succeeded on a file that now carries two *)
(* flags; setting ATTR_NONE next reports no flag.                          *)
C24_Witness ==
    /\ last.op = "set_file_attributes" /\ last.ret = 0
    /\ IsLiveFile(Resolve(FilePath))
    /\ ReportedAttributes(St, FilePath) = ATTR_READONLY + ATTR_HIDDEN
    /\ ReportedAttributes(set_file_attributes(St, FilePath, ATTR_NONE).s, FilePath) = ATTR_NONE

(* Paths that name no node in some or in all states: a missing name, a     *)
(* name below a file, a name below a missing directory, a name too long.   *)
MissingPaths ==
    MetaPaths \cup { FilePath \o <<"/", "x">>, NoPath \o <<"/", "f">>, <<"f">>,
                     <<"/">> \o LongName }

(* C25: get_file_info, set_file_attributes and touch_file return -1 for a  *)
(* path that resolves to no node, get_file_info returns -1 without an      *)
(* output record even for an existing node, and these failing calls leave  *)
(* every node as it was.                                                   *)
C25_MetadataErrors ==
    \A p \in MissingPaths \cup {RootPath} :
        /\ Resolve(p) = NULL =>
            /\ get_file_info(St, p, TRUE).ret = -1
            /\ \A bits \in AttrBits : set_file_attributes(St, p, bits).ret = -1
            /\ touch_file(St, p).ret = -1
        /\ get_file_info(St, p, FALSE).ret = -1
        /\ \A r \in {get_file_info(St, p, b).s : b \in BOOLEAN}
                  \cup {set_file_attributes(St, p, bits).s : bits \in AttrBits}
                  \cup {touch_file(St, p).s} :
              Resolve(p) = NULL => r = St
        /\ get_file_info(St, p, FALSE).s = St

(* One of the three has just failed on a missing path while /f exists and  *)
(* get_file_info of /f without an output record fails too.                 *)
C25_Witness ==
    /\ last.op \in {"get_file_info", "set_file_attributes", "touch_file"}
    /\ last.ret = -1
    /\ Resolve(NoPath) = NULL
    /\ IsLiveFile(Resolve(FilePath))
    /\ Resolve(FilePath \o <<"/", "x">>) = NULL
    /\ get_file_info(St, FilePath, FALSE).ret = -1
    /\ get_file_info(St, FilePath, TRUE).ret = 0

Content(f) == SubSeq(nodes[f].data, 1, nodes[f].size)

(* What fs_read_fd returns after fs_open(p, O_RDWR), fs_write_fd of buf    *)
(* through the new descriptor and fs_seek(fd, 0, SEEK_SET).                *)
OpenWriteRewindRead(p, buf, ub) ==
    LET o == fs_open(St, p, O_RDWR)
        w == fs_write_fd(o.s, o.ret, TRUE, buf, ub)
        k == fs_seek(w.s, o.ret, 0, SEEK_SET, ub)
    IN  fs_read_fd(k.s, o.ret, TRUE, nodes[Resolve(p)].size + Len(buf))

(* C26: when a file holds content C written by path, fs_open read-write,   *)
(* fs_write_fd of D without a seek, fs_seek to 0 and fs_read_fd return C   *)
(* followed by D.                                                          *)
C26_DescriptorWriteAppends ==
    \A buf \in Bufs, ub \in UbOutcomes :
        (/\ WritableFile(FilePath)
         /\ nodes[Resolve(FilePath)].size > 0
         /\ fs_open(St, FilePath, O_RDWR).ret >= 0) =>
            OpenWriteRewindRead(FilePath, buf, ub).out
                = Content(Resolve(FilePath)) \o buf

MoveTargets == TreePaths \cup { <<"/", "c">>, <<"/", "a", "/", "c">>, <<"c">> }

(* rename_file(old, new) gets as far as attaching the node to another      *)
(* directory, and that directory is full.                                  *)
DestinationFull(old, new) ==
    LET n == Resolve(old)
        w == walk(St, new, TRUE)
    IN  /\ ~WalkUB(old) /\ ~WalkUB(new)
        /\ n \in live /\ n # root
        /\ nodes[n].parent \in live
        /\ ~Flagged(n, ATTR_READONLY) /\ ~Flagged(nodes[n].parent, ATTR_READONLY)
        /\ IsLiveDir(w.node) /\ ~Flagged(w.node, ATTR_READONLY)
        /\ \A i \in 1..Len(nodes[w.node].children) :
                ~SameName(nodes[nodes[w.node].children[i]].name, w.leaf)
        /\ w.node # nodes[n].parent
        /\ Len(nodes[w.node].children) >= MAX_CHILDREN

(* C27: when rename_file fails because the destination directory is full,  *)
(* the node is still a child of its parent under its name, and the old     *)
(* parent and the destination hold the same children as before.            *)
C27_FailedMoveRestores ==
    \A old \in TreePaths, new \in MoveTargets :
        DestinationFull(old, new) =>
            LET n == Resolve(old)
                op == nodes[n].parent
                np == walk(St, new, TRUE).node
                r == rename_file(St, old, new)
            IN  /\ r.ret = -1 /\ r.fault = "none"
                /\ r.s.nodes[n].parent = op
                /\ r.s.nodes[n].name = nodes[n].name
                /\ Occurrences(r.s.nodes[op].children, n) = 1
                /\ Range(r.s.nodes[op].children) = Range(nodes[op].children)
                /\ Len(r.s.nodes[op].children) = Len(nodes[op].children)
                /\ r.s.nodes[np].children = nodes[np].children
                /\ r.s.live = live

(* A rename_file of /a/b to the full root has just failed. *)
C27_Witness ==
    /\ last.op = "rename_file" /\ last.ret = -1
    /\ Len(nodes[root].children) = MAX_CHILDREN
    /\ DestinationFull(<<"/", "a", "/", "b">>, <<"/", "c">>)
    /\ DestinationFull(<<"/", "a", "/", "b">>, <<"/">>)

(* Everything of node n that a move must keep: type, attributes, content,  *)
(* children.                                                               *)
Kept(s, n) ==
    [type |-> s.nodes[n].type, attributes |-> s.nodes[n].attributes,
     size |-> s.nodes[n].size, data |-> s.nodes[n].data,
     children |-> s.nodes[n].children]

(* C28: after a successful rename_file the node resolves at the new path   *)
(* and not at the old one, its content, size, attributes and subtree are   *)
(* unchanged, no node is freed or allocated, and the descriptor table is   *)
(* as before.                                                              *)
C28_RenameMovesInPlace ==
    \A old \in TreePaths, new \in MoveTargets :
        LET n == Resolve(old)
            r == rename_file(St, old, new)
        IN  (~WalkUB(old) /\ ~WalkUB(new) /\ r.fault = "none" /\ r.ret = 0) =>
                /\ walk(r.s, new, FALSE).node = n
                /\ walk(r.s, old, FALSE).node # n
                /\ Kept(r.s, n) = Kept(St, n)
                /\ r.s.live = live
                /\ r.s.fd_table = fd_table

(* C29: a step never changes the children of a directory that carries the  *)
(* read-only attribute: create_file, mkdir_p, rm_file, rmdir_empty and     *)
(* rename_file fail instead of adding or removing an entry.                *)
C29_ReadOnlyDirFrozen ==
    [][ \A d \in live :
            (nodes[d].type = N_DIR /\ Flagged(d, ATTR_READONLY)) =>
                (d \in live' /\ nodes'[d].children = nodes[d].children) ]_vars

(* The nodes of s that can be reached from the root through children. *)
RECURSIVE Linked(_, _)
Linked(s, S) ==
    LET T == S \cup (UNION { Range(s.nodes[n].children) : n \in S } \cap s.live) IN
    IF T = S THEN S ELSE Linked(s, T)

(* The tree: which nodes hang where, under which names. *)
Structure(s) ==
    [ n \in Linked(s, {s.root}) |->
        [ type |-> s.nodes[n].type, name |-> s.nodes[n].name,
          parent |-> s.nodes[n].parent, children |-> s.nodes[n].children ] ]

(* The paths that end where a name of p ends. *)
PathPrefixes(p) ==
    { SubSeq(p, 1, k) : k \in { j \in 1..Len(p) :
                                  p[j] # "/" /\ (j = Len(p) \/ p[j + 1] = "/") } }

ThroughFile(p) == \E q \in PathPrefixes(p) : IsLiveFile(Resolve(q))

MkdirTried ==
    TreePaths \cup { <<>>, <<"/", "a", "/", "b", "/", "c">>, <<"/", "b", "/", ".", ".">>,
                     <<"/", "a", "/", ".">>, <<"b">> }

(* C30: mkdir_p of a path whose segments all exist as directories returns  *)
(* 0 and leaves the tree as it is; a second mkdir_p of the same path       *)
(* returns what the first returned and leaves the tree the first left;     *)
(* "/" and "" return 0 and change nothing; it returns -1 when a segment of *)
(* the path is a file.                                                     *)
C30_MkdirIdempotent ==
    \A p \in MkdirTried, id \in Slots :
        ~Dangling(cwd) =>
            LET r1 == mkdir_p(St, p, id) IN
            /\ IsLiveDir(Resolve(p)) =>
                (r1.ret = 0 /\ Structure(r1.s) = Structure(St) /\ r1.s.live = live)
            /\ r1.fault = "none" =>
                \A id2 \in NodeIds :
                    LET r2 == mkdir_p(r1.s, p, id2) IN
                    r2.fault = "none" =>
                        (r2.ret = r1.ret /\ Structure(r2.s) = Structure(r1.s))
            /\ p \in {RootPath, <<>>} => (r1.ret = 0 /\ r1.s = St)
            /\ ThroughFile(p) => r1.ret = -1

(* A mkdir_p has just succeeded; /a exists as a directory, so mkdir_p of   *)
(* /a is a repeat, and /a/b is a file, so mkdir_p of /a/b/c must fail.     *)
C30_Witness ==
    /\ last.op = "mkdir_p" /\ last.ret = 0
    /\ ~Dangling(cwd)
    /\ IsLiveDir(Resolve(<<"/", "a">>))
    /\ IsLiveFile(Resolve(<<"/", "a", "/", "b">>))
    /\ mkdir_p(St, <<"/", "a">>, NULL).ret = 0
    /\ mkdir_p(St, <<"/", "a", "/", "b", "/", "c">>, NULL).ret = -1

(* Two different open descriptors on the same live file. *)
SameFile(fd1, fd2) ==
    /\ fd1 \in OpenFds /\ fd2 \in OpenFds /\ fd1 # fd2
    /\ fd_table[fd1].node = fd_table[fd2].node
    /\ IsLiveFile(fd_table[fd1].node)

(* What descriptor fd reads in state s after fs_seek(fd, off, SEEK_SET). *)
ReadAt(s, fd, off, len, ub) ==
    fs_read_fd(fs_seek(s, fd, off, SEEK_SET, ub).s, fd, TRUE, len)

(* The bytes buf stored at off in state s are what fd reads there, and the *)
(* size fd finds with SEEK_END is the size of the file.                    *)
SeesWrite(s, fd, off, buf, ub) ==
    /\ LET rd == ReadAt(s, fd, off, Len(buf), ub) IN
        rd.ret # -1 => (rd.ret = Len(buf) /\ rd.out = buf)
    /\ fs_seek(s, fd, 0, SEEK_END, ub).ret = s.nodes[s.fd_table[fd].node].size

(* C31: with two descriptors open on one file, fs_read_fd, fs_write_fd and *)
(* fs_seek on one of them and write_file and read_file by path leave the   *)
(* other's cursor alone, and what is written through one descriptor or by  *)
(* path is what the other reads at that offset.                            *)
C31_CursorsApartContentShared ==
    \A fd1 \in Fds, fd2 \in Fds :
        SameFile(fd1, fd2) =>
            \A ub \in UbOutcomes :
                /\ \A len \in Lens :
                    /\ fs_read_fd(St, fd1, TRUE, len).s.fd_table[fd2] = fd_table[fd2]
                    /\ \A off \in MetaOffsets :
                        read_file(St, FilePath, off, len).s.fd_table = fd_table
                /\ \A a \in SeekArgs :
                    LET k == fs_seek(St, fd1, a[1], a[2], ub) IN
                    /\ k.s.fd_table[fd2] = fd_table[fd2]
                    /\ k.s.nodes[fd_table[fd2].node].size = nodes[fd_table[fd2].node].size
                /\ \A buf \in Bufs :
                    /\ LET w == fs_write_fd(St, fd1, TRUE, buf, ub) IN
                        /\ w.s.fd_table[fd2] = fd_table[fd2]
                        /\ (w.fault = "none" /\ w.ret = Len(buf)) =>
                                SeesWrite(w.s, fd2, fd_table[fd1].offset, buf, ub)
                    /\ \A off \in MetaOffsets :
                        LET w == write_file(St, FilePath, off, buf, ub) IN
                        /\ w.s.fd_table = fd_table
                        /\ (w.fault = "none" /\ w.ret = Len(buf)) =>
                                SeesWrite(w.s, fd2, off, buf, ub)

(* Both descriptors are open read-write on /f with different cursors, an   *)
(* fs_write_fd has just stored bytes, and the other descriptor reads the   *)
(* bytes a further write stores.                                           *)
C31_Witness ==
    /\ last.op = "fs_write_fd" /\ last.ret > 0
    /\ SameFile(0, 1)
    /\ fd_table[0].flags = O_RDWR /\ fd_table[1].flags = O_RDWR
    /\ fd_table[0].offset # fd_table[1].offset
    /\ Resolve(FilePath) = fd_table[0].node
    /\ ReadAt(fs_write_fd(St, 0, TRUE, <<2, 1>>, "trap").s, 1,
              fd_table[0].offset, 2, "trap").out = <<2, 1>>

SeekOffsets == {-1, 0, 1, OFF_MAX}
Whences == {SEEK_SET, SEEK_CUR, SEEK_END, 3}

(* The position the three modes of fs_seek stand for. *)
SeekTarget(fd, offset, whence) ==
    IF whence = SEEK_SET THEN offset
    ELSE IF whence = SEEK_CUR THEN fd_table[fd].offset + offset
    ELSE nodes[fd_table[fd].node].size + offset

(* C32: fs_seek takes offset, cursor + offset or size + offset as the new  *)
(* cursor; when that is negative or whence is none of the three it returns *)
(* -1 and changes nothing; otherwise it sets the cursor to it and returns  *)
(* it, also beyond the end of the data, and leaves size and content alone. *)
C32_SeekPositions ==
    \A fd \in OpenFds, offset \in SeekOffsets, whence \in Whences, ub \in UbOutcomes :
        IsLiveFile(fd_table[fd].node) =>
            LET k == fs_seek(St, fd, offset, whence, ub)
                target == SeekTarget(fd, offset, whence)
            IN  /\ k.fault = "none"
                /\ k.s.nodes = nodes
                /\ IF whence \notin {SEEK_SET, SEEK_CUR, SEEK_END} \/ target < 0
                   THEN k.ret = -1 /\ k.s = St
                   ELSE /\ k.ret = target
                        /\ k.s = [St EXCEPT !.fd_table[fd].offset = target]

ReadModes == {O_RDONLY, O_RDWR}
ReadLens == Lens \cup {0, MaxData, SIZE_MAX}

(* C33: fs_read_fd on a descriptor opened for reading returns the          *)
(* min(len, size - cursor) bytes at the cursor and moves the cursor on by  *)
(* that count; with the cursor at or past the end it returns 0 and leaves  *)
(* the cursor; a read never moves the cursor past max(old cursor, size).   *)
C33_ReadReturnsAvailable ==
    \A fd \in OpenFds, len \in ReadLens :
        (fd_table[fd].flags \in ReadModes /\ IsLiveFile(fd_table[fd].node)) =>
            LET r == fs_read_fd(St, fd, TRUE, len)
                c == fd_table[fd].offset
                f == fd_table[fd].node
                avail == nodes[f].size - c
                count == IF avail <= 0 THEN 0 ELSE IF len < avail THEN len ELSE avail
            IN  /\ r.fault = "none"
                /\ r.ret = count
                /\ r.out = SubSeq(nodes[f].data, c + 1, c + count)
                /\ r.s.fd_table[fd].offset = c + count
                /\ r.s.fd_table[fd].offset <= (IF c > nodes[f].size THEN c ELSE nodes[f].size)
                /\ avail <= 0 => r.s = St

(* An fs_read_fd has just returned bytes and left a read-only descriptor   *)
(* one byte before the end of a file of several bytes: a read of two bytes *)
(* returns one, and the read after it returns 0.                           *)
C33_Witness ==
    /\ last.op = "fs_read_fd" /\ last.ret > 0
    /\ \E fd \in OpenFds :
        /\ fd_table[fd].flags = O_RDONLY
        /\ IsLiveFile(fd_table[fd].node)
        /\ fd_table[fd].offset > 0
        /\ nodes[fd_table[fd].node].size = fd_table[fd].offset + 1
        /\ fs_read_fd(St, fd, TRUE, 2).ret = 1
        /\ fs_read_fd(fs_read_fd(St, fd, TRUE, 2).s, fd, TRUE, 2).ret = 0

GrowOffsets == {1, INIT_CAP, 2 * INIT_CAP - 1}
GrowSeeks == { <<1, SEEK_SET>>, <<INIT_CAP, SEEK_SET>>, <<0, SEEK_END>> }

(* No file has grown more than a byte beyond the first allocation. *)
RoomToGrow == \A n \in live : nodes[n].size <= INIT_CAP + 1

(* A file written by path and through a descriptor at offsets inside the   *)
(* first allocation, beyond it, and beyond what realloc grants.            *)
NextGrow ==
    \/ CreateFile({FilePath})
    \/ RoomToGrow /\ WriteFile({FilePath}, GrowOffsets, Bufs)
    \/ ReadFile({FilePath}, {INIT_CAP}, Lens)
    \/ FsOpen({FilePath}, {O_RDWR})
    \/ FsSeek({0}, GrowSeeks)
    \/ RoomToGrow /\ FsWriteFd({0}, {<<1>>})

SpecGrow == Init /\ [][NextGrow]_vars

AllZero(q) == \A i \in 1..Len(q) : q[i] = 0

GapOffsets == {0, 1, 2, MaxData + 1, INIT_CAP, INIT_CAP + 2}

(* Byte i (from 0) of the file after a write of buf at off: the byte       *)
(* written, else the byte that was there, else 0.                          *)
ExpectedByte(f, off, buf, i) ==
    IF i >= off /\ i < off + Len(buf) THEN buf[i - off + 1]
    ELSE IF i < nodes[f].size THEN nodes[f].data[i + 1]
    ELSE 0

ExpectedContent(f, off, buf) ==
    LET new_size == IF off + Len(buf) > nodes[f].size
                    THEN off + Len(buf) ELSE nodes[f].size
    IN  [i \in 1..new_size |-> ExpectedByte(f, off, buf, i - 1)]

ContentIn(s, f) == SubSeq(s.nodes[f].data, 1, s.nodes[f].size)
TailIn(s, f) == SubSeq(s.nodes[f].data, s.nodes[f].size + 1, s.nodes[f].cap)

(* C34: in every file the bytes from size up to capacity are 0, and after  *)
(* a write by path or through a descriptor at any offset the bytes of the  *)
(* gap between the old end and the offset read as 0, the bytes written     *)
(* read as written and the others as before.                               *)
C34_UnwrittenBytesZero ==
    \A f \in live : nodes[f].type = N_FILE =>
        /\ Len(nodes[f].data) = nodes[f].cap
        /\ AllZero(TailIn(St, f))
        /\ \A off \in GapOffsets, buf \in Bufs, ub \in UbOutcomes :
            /\ LET w == write_file(St, FilePath, off, buf, ub) IN
                (Resolve(FilePath) = f /\ w.fault = "none" /\ w.ret = Len(buf)) =>
                    /\ ContentIn(w.s, f) = ExpectedContent(f, off, buf)
                    /\ read_file(w.s, FilePath, 0, off + Len(buf)).out
                            = SubSeq(ExpectedContent(f, off, buf), 1, off + Len(buf))
                    /\ AllZero(TailIn(w.s, f))
            /\ \A fd \in OpenFds :
                LET k == fs_seek(St, fd, off, SEEK_SET, ub)
                    w == fs_write_fd(k.s, fd, TRUE, buf, ub)
                IN  (fd_table[fd].node = f /\ w.fault = "none" /\ w.ret = Len(buf)) =>
                        /\ ContentIn(w.s, f) = ExpectedContent(f, off, buf)
                        /\ AllZero(TailIn(w.s, f))

(* A write has just grown /f beyond the first allocation, leaving a gap of *)
(* never-written bytes below the new end that read_file returns as 0.      *)
C34_Witness ==
    /\ last.op \in {"write_file", "fs_write_fd"} /\ last.ret > 0
    /\ IsLiveFile(Resolve(FilePath))
    /\ nodes[Resolve(FilePath)].cap = 2 * INIT_CAP
    /\ nodes[Resolve(FilePath)].size > INIT_CAP
    /\ nodes[Resolve(FilePath)].data[1] = 0
    /\ nodes[Resolve(FilePath)].data[2] # 0
    /\ read_file(St, FilePath, MaxData, 2).out = <<0, 0>>

IsCapacity(c) == c = 0 \/ \E k \in 0..SIZE_BITS : c = INIT_CAP * (2 ^ k)
WrapOffsets == GapOffsets \cup {2 * INIT_CAP - 1, OFF_MAX, SIZE_MAX - 1, SIZE_MAX}

CapacityCoversSize(s, f) ==
    s.nodes[f].cap >= s.nodes[f].size /\ IsCapacity(s.nodes[f].cap)

NeverShrinks(s, t, f) ==
    t.nodes[f].cap >= s.nodes[f].cap /\ t.nodes[f].size >= s.nodes[f].size

(* In every state, and in the state every further write would leave. *)
CapacityInvariant ==
    \A f \in live : nodes[f].type = N_FILE =>
        /\ CapacityCoversSize(St, f)
        /\ \A off \in WrapOffsets, buf \in Bufs, ub \in UbOutcomes :
            /\ LET w == write_file(St, FilePath, off, buf, ub) IN
                CapacityCoversSize(w.s, f) /\ NeverShrinks(St, w.s, f)
            /\ \A fd \in OpenFds :
                LET w == fs_write_fd(fs_seek(St, fd, off, SEEK_SET, ub).s,
                                     fd, TRUE, buf, ub)
                IN  CapacityCoversSize(w.s, f) /\ NeverShrinks(St, w.s, f)

CapacityStep ==
    \A f \in live : (nodes[f].type = N_FILE /\ f \in live') =>
        nodes'[f].cap >= nodes[f].cap /\ nodes'[f].size >= nodes[f].size

(* C35: every file has capacity >= size and a capacity that is 0 or 64     *)
(* times a power of two, and no write_file or fs_write_fd lowers the       *)
(* capacity or the size of a file.                                         *)
C35_CapacityMonotone == [](CapacityInvariant) /\ [][CapacityStep]_vars

(* A write has just grown /f to the second capacity, with data up to the   *)
(* byte after the first.                                                   *)
C35_Witness ==
    /\ last.op \in {"write_file", "fs_write_fd"} /\ last.ret > 0
    /\ IsLiveFile(Resolve(FilePath))
    /\ nodes[Resolve(FilePath)].cap = 2 * INIT_CAP
    /\ nodes[Resolve(FilePath)].size = INIT_CAP + 1
    /\ write_file(St, FilePath, 0, <<1>>, "trap").s.nodes[Resolve(FilePath)].size
            = INIT_CAP + 1

FullTargets == TreePaths \cup { <<"/", "c">>, <<"/", "a", "/", "c">>, <<"c">> }

(* The directory that is to hold the last name of p is full and holds no   *)
(* entry of that name.                                                     *)
TargetFull(p) ==
    LET w == walk(St, p, TRUE) IN
    /\ ~Dangling(cwd)
    /\ IsLiveDir(w.node)
    /\ Len(nodes[w.node].children) >= MAX_CHILDREN
    /\ w.leaf \notin {<<>>, Dot, DotDot}
    /\ \A i \in 1..Len(nodes[w.node].children) :
            ~SameName(nodes[nodes[w.node].children[i]].name, w.leaf)

(* C36: no directory holds more than MAX_CHILDREN children; create_file    *)
(* and mkdir_p of a new name in a full directory return -1 and leave the   *)
(* children of every directory as they were (calls for which the node pool *)
(* of the model has no slot left are not followed).                        *)
C36_FanOutBounded ==
    /\ \A d \in live : Len(nodes[d].children) <= MAX_CHILDREN
    /\ \A p \in FullTargets, id \in Slots :
        TargetFull(p) =>
            /\ LET r == create_file(St, p, id) IN
                r.fault # "nomem" =>
                    (r.ret = -1 /\ r.fault = "none" /\ Observable(r.s) = Observable(St))
            /\ LET r == mkdir_p(St, p, id) IN
                r.fault # "nomem" =>
                    /\ r.ret = -1 /\ r.fault = "none"
                    /\ \A d \in live : r.s.nodes[d].children = nodes[d].children

(* A create_file or mkdir_p has just failed while the root holds           *)
(* MAX_CHILDREN entries and none is named c.                               *)
C36_Witness ==
    /\ last.op \in {"create_file", "mkdir_p"} /\ last.ret = -1
    /\ Len(nodes[root].children) = MAX_CHILDREN
    /\ TargetFull(<<"/", "c">>)
    /\ live # NodeIds
    /\ create_file(St, <<"/", "c">>, NULL).fault = "none"
    /\ create_file(St, <<"/", "c">>, NULL).ret = -1
    /\ mkdir_p(St, <<"/", "c">>, NULL).ret = -1

(***************************************************************************)
(* C37: ensure_cap(f, want) returns for every want of the size_t range,    *)
(* either 0 with a capacity of at least want or -1; it never fails to      *)
(* terminate, whatever the capacity of the file.                           *)
(***************************************************************************)
Wants == 0..SIZE_MAX

Files == {n \in live : nodes[n].type = N_FILE}

C37_EnsureCapTerminates ==
    \A f \in Files, want \in Wants :
        LET r == ensure_cap(St, f, want) IN
            /\ r.fault = "none"
            /\ \/ r.ret = 0 /\ r.s.nodes[f].cap >= want
               \/ r.ret = -1

(***************************************************************************)
(* Files that are removed while descriptors are open on them.              *)
(***************************************************************************)
UnlinkSeeks == { <<0, SEEK_SET>>, <<0, SEEK_END>> }

(* Descriptor writes are followed while no file holds data yet. *)
AllEmpty == \A n \in NodeIds : nodes[n].size = 0

NextUnlink ==
    \/ CreateFile({FilePath})
    \/ FsOpen({FilePath}, {O_RDWR})
    \/ FsClose(Fds)
    \/ FsReadFd(Fds, {1})
    \/ AllEmpty /\ FsWriteFd({0}, {<<1>>})
    \/ FsSeek(Fds, UnlinkSeeks)
    \/ RmFile({FilePath})

SpecUnlink == Init /\ [][NextUnlink]_vars

(* C38: every descriptor in use refers to a file node that is still in the *)
(* tree, and no call through a descriptor has worked on a node that was    *)
(* freed.                                                                  *)
C38_DescriptorsStayLive ==
    /\ \A fd \in Fds : fd_table[fd].in_use # 0 => IsLiveFile(fd_table[fd].node)
    /\ ~(last.op \in {"fs_read_fd", "fs_write_fd", "fs_seek"} /\ pc = "undefined")

(***************************************************************************)
(* C39: the nodes form a tree rooted at the root: from every live node the *)
(* parent references lead to the root in finitely many steps, every live   *)
(* node can be reached from the root through children, and this is still   *)
(* so after rename_file has moved a directory to a destination inside      *)
(* itself.                                                                 *)
(***************************************************************************)
RECURSIVE Ascends(_, _, _)
Ascends(s, n, k) ==
    \/ n = s.root
    \/ k > 0 /\ n # NULL /\ n \in s.live /\ Ascends(s, s.nodes[n].parent, k - 1)

RootedTree(s) ==
    \A n \in s.live : Ascends(s, n, MaxNodes) /\ n \in Linked(s, {s.root})

InsideItself == { <<<<"/", "a">>, <<"/", "a", "/", "b">>>>,
                  <<<<"/", "a">>, <<"/", "a", "/", "a">>>> }

C39_TreeRootedAtRoot ==
    /\ RootedTree(St)
    /\ \A m \in InsideItself :
        LET r == rename_file(St, m[1], m[2]) IN
            (RootedTree(St) /\ r.ret = 0) => RootedTree(r.s)

(***************************************************************************)
(* C40: the cursor always designates a directory that is in the tree:      *)
(* fs_cd moves it to a directory it resolved, a failed fs_cd leaves it     *)
(* where it was, and neither rmdir_empty nor rename_file leaves it on a    *)
(* node that was freed or cut off from the root.                           *)
(***************************************************************************)
CursorPaths == TreePaths \cup CdPaths

C40_CursorInTree ==
    /\ IsLiveDir(cwd)
    /\ cwd \in Linked(St, {root})
    /\ \A p \in CursorPaths :
        (~WalkUB(p)) =>
            LET r == fs_cd(St, p)
                w == walk(St, p, FALSE).node
            IN  /\ r.ret = 0 => (r.s.cwd = w /\ IsLiveDir(w))
                /\ r.ret # 0 => r.s.cwd = cwd

====
